---- MODULE Spec2Model ----
(***************************************************************************)
(* Model of napcat-plugin-bilibili: the QR login state machine, the        *)
(* credential store and the cookie refresh protocol.                        *)
(*                                                                          *)
(* Every async function is split at its awaits: the part of a handler that  *)
(* runs between two awaits is one action, and other handlers may run        *)
(* between two actions of the same call (single-threaded event loop).       *)
(* Remote replies are inputs drawn with \E from small sets.                 *)
(*                                                                          *)
(* The user-visible messages of the code are Chinese strings; the model     *)
(* writes each as an English string of the same meaning.                    *)
(***************************************************************************)
EXTENDS Integers, Sequences, FiniteSets, Bags, TLC

----------------------------------------------------------------------------
(* Bounds of the model *)

\* number of clock advances in one behaviour
MaxTicks == 2
\* calls of pollQrCodeStatus that may be awaiting the remote at once
MaxPolls == 1
\* calls of generateQrCode that may be awaiting the remote at once
MaxGens == 1
\* runs of performCookieRefresh that may be under way at once
MaxRuns == 1
\* calls of getUserInfo that may be awaiting the remote at once
MaxInfos == 1
\* the most candidates in one list of a manifest
MaxStreams == 2
\* the most calls of handleMessage under way at once
MaxMsgs == 1
\* the most tokens in one text
MaxTokens == 3
\* a message is taken while fewer cleanup timers than this are pending
MaxTimers == 1
\* the most calls of handleMessage under way at once where calls overlap
MaxOverlap == 2
\* the most entries of the dedup table
MaxEntries == 101

----------------------------------------------------------------------------
(* Program constants *)

\* bilibili-login-service.ts:52
QRCODE_TIMEOUT == 180 * 1000

\* enum QrCodeLoginStatus
WAITING == 86101
SCANNED == 86090
EXPIRED == 86038
SUCCESS == 0

\* the code -101 ("not logged in") that getUserInfo reacts to
NOT_LOGGED_IN == 0 - 101
\* any other non-zero envelope code
API_ERROR == 0 - 1
\* a poll code outside the enum
UNKNOWN_CODE == 0 - 412

\* the key deriveEncryptionKey() yields on this machine
MachineKey == "this-machine"

----------------------------------------------------------------------------
(* Values *)

\* JavaScript undefined / null for an optional string
Undefined == "<undefined>"
\* falsy strings: '' and undefined
Falsy(s) == s = "" \/ s = Undefined

\* an absent credential (config.credential undefined, or a null result)
NoCred == [none |-> TRUE]
\* an absent optional number (login_time)
NoTime == 0 - 1

\* currentQrSession = null
NoSession == [none |-> TRUE]
\* qrcode_key parameter left out
NoKey == ""
\* keys the QR generation endpoint hands out (never empty on success)
Keys == {"k1", "k2"}
UrlOf(k) == "https://qr/" \o k

\* the messages of a QrCodePollResult, by their meaning:
\*   "no valid session"         line 111     "timed out"               line 120
\*   "network request failed"   line 136     "data.message"            line 152
\*   "waiting for scan"         line 163     "scanned"                 line 169
\*   "expired"                  line 176     "login succeeded"         line 189
\*   "credential parse failed"  line 195     "unknown status"          line 202
\*   "request exception"        line 209

----------------------------------------------------------------------------
VARIABLES
    now,                \* Date.now(), in milliseconds
    ticks,              \* clock advances so far
    currentQrSession,   \* module variable currentQrSession
    polls,              \* bag of the calls of pollQrCodeStatus under way: position and locals
    gens,               \* calls of generateQrCode awaiting the remote
    hist,               \* history: what polls of the latest session's key have reported
    credential,         \* pluginState.config.credential
    disk,               \* the credential object of the persisted config file
    fsFaults,           \* whether the file system and the cipher may fail
    refresh,            \* bag of the runs of performCookieRefresh: position and locals
    uinfo,              \* calls of getUserInfo awaiting the remote, per caller
    refreshTimer,       \* module variable refreshTimer: the interval timer, if armed
    armed,              \* the number of interval timers armed in the event loop
    dashInfo,           \* the DashPlayInfo handed to getHighestQualityStreams
    videoQuality,       \* pluginState.config.videoQuality
    messageText,        \* the text handed to extractVideoId
    plaintext,          \* the string handed to encryptString
    probe,              \* what the steps of a downloadDashVideo call meet: the manifest
                        \* served, the downloads, ffmpeg, and config.maxVideoSizeMB
    parseCache,         \* pluginState.parseCache: key -> expiry time
    parseCacheTTL,      \* pluginState.config.parseCacheTTL, in seconds
    handling,           \* calls of handleMessage under way, each at an await
    inserted,           \* history: per (group, video), when addToParseCache last ran and its TTL
    cleanups,           \* the timers set by handleMessage (line 386): the file each
                        \* is to remove, and the time left until it is due
    ret                 \* the handler step taken last, with the value it returned

clockVars == <<now, ticks>>
qrVars == <<currentQrSession, polls, gens, hist>>
storeVars == <<credential, disk, fsFaults>>
runVars == <<refresh, uinfo>>
serviceVars == <<refreshTimer, armed>>
streamVars == <<dashInfo, videoQuality, messageText, plaintext, probe>>
handlerVars == <<parseCache, parseCacheTTL, handling, inserted, cleanups>>
pluginVars == <<serviceVars, streamVars, handlerVars>>
vars == <<clockVars, qrVars, storeVars, runVars, pluginVars, ret>>

\* a step that returns nothing yet
Step(name) == [op |-> name]

----------------------------------------------------------------------------
(* crypto-utils: encryption of credential fields at rest *)

\* a stored string: plaintext, or ENC:iv:tag:data made with `key`
PlainCell(s) == [enc |-> FALSE, key |-> "", text |-> s]
NoCell == PlainCell(Undefined)

\* a string with an unpaired surrogate code unit, and what it is after
\* cipher.update(s, 'utf8') and decrypted.toString('utf8'): the surrogate is
\* encoded as U+FFFD
LoneSurrogate == "<D800>"
Utf8RoundTrip(s) == IF s = LoneSurrogate THEN "<FFFD>" ELSE s

\* encOk = FALSE: the cipher throws and the plaintext is returned.  The text
\* of an encrypted cell is what its bytes decode to.
encryptString(s, encOk) ==
    IF Falsy(s) THEN PlainCell(s)
    ELSE IF encOk THEN [enc |-> TRUE, key |-> MachineKey, text |-> Utf8RoundTrip(s)]
    ELSE PlainCell(s)

\* the string a cell holds on disk
CellString(cell) ==
    IF cell.enc THEN "ENC:" \o cell.text ELSE cell.text

\* variant of decryptString: a value with the prefix is returned as it is
decryptStringKeepsCiphertext(cell) ==
    IF ~cell.enc THEN cell.text ELSE CellString(cell)

decryptString(cell) ==
    IF Falsy(cell.text) /\ ~cell.enc THEN cell.text
    ELSE IF ~cell.enc THEN cell.text
    ELSE IF cell.key = MachineKey THEN cell.text
    ELSE CellString(cell)

----------------------------------------------------------------------------
(* PluginState.saveConfig: the credential part of the file *)

\* outcome of one saveConfig: written encrypted, written with the cipher
\* failing, or the write throws (caught and logged, file untouched)
SaveOutcomes == IF fsFaults THEN {"ok", "encfail", "writefail"} ELSE {"ok"}

\* variant of the credential saved: without login_time
EncryptedCredentialNoTime(cred, encOk) ==
    IF cred = NoCred THEN NoCred
    ELSE [sessdata      |-> encryptString(cred.sessdata, encOk),
          bili_jct      |-> encryptString(cred.bili_jct, encOk),
          dedeuserid    |-> encryptString(cred.dedeuserid, encOk),
          refresh_token |-> IF Falsy(cred.refresh_token) THEN NoCell
                            ELSE encryptString(cred.refresh_token, encOk),
          login_time    |-> NoTime]

EncryptedCredential(cred, encOk) ==
    IF cred = NoCred THEN NoCred
    ELSE [sessdata      |-> encryptString(cred.sessdata, encOk),
          bili_jct      |-> encryptString(cred.bili_jct, encOk),
          dedeuserid    |-> encryptString(cred.dedeuserid, encOk),
          refresh_token |-> IF Falsy(cred.refresh_token) THEN NoCell
                            ELSE encryptString(cred.refresh_token, encOk),
          login_time    |-> cred.login_time]

saveConfig(cred, old, outcome) ==
    IF outcome = "writefail" THEN old
    ELSE EncryptedCredential(cred, outcome = "ok")

\* saveCredential: pluginState.config.credential = credential
saveCredential(cred) == cred

----------------------------------------------------------------------------
(* generateQrCode *)

GenReply(net, ok, code, key) == [net |-> net, ok |-> ok, code |-> code, key |-> key]

\* the endpoint never hands out the key of the session being replaced
GenResponses(session) ==
    {GenReply("throw", FALSE, API_ERROR, NoKey),
     GenReply("ok", FALSE, API_ERROR, NoKey),
     GenReply("ok", TRUE, API_ERROR, NoKey)}
    \cup {GenReply("ok", TRUE, 0, k) :
            k \in {x \in Keys : session = NoSession \/ x # session.qrcode_key}}

GenSucceeds(resp) == resp.net = "ok" /\ resp.ok /\ resp.code = 0

\* variant: a session already active is kept, whatever the reply
GenerateSessionKeepsOld(resp, old, t) ==
    IF old # NoSession THEN old
    ELSE IF GenSucceeds(resp)
    THEN [qrcode_key |-> resp.key, url |-> UrlOf(resp.key), createTime |-> t]
    ELSE old

\* lines 81-86: the session after the reply has been handled
GenerateSession(resp, old, t) ==
    IF GenSucceeds(resp)
    THEN [qrcode_key |-> resp.key, url |-> UrlOf(resp.key), createTime |-> t]
    ELSE old

\* the value returned: null, or {url, qrcode_key}
GenerateReturn(resp) ==
    IF GenSucceeds(resp)
    THEN [op |-> "generate.return", null |-> FALSE,
          url |-> UrlOf(resp.key), qrcode_key |-> resp.key]
    ELSE [op |-> "generate.return", null |-> TRUE, url |-> "", qrcode_key |-> NoKey]

\* history: the key of the session created last, with nothing reported yet
NoHist == [key |-> NoKey, marks |-> {}]
HistReset(h, resp) ==
    IF GenSucceeds(resp) THEN [key |-> resp.key, marks |-> {}] ELSE h

GenerateCall ==
    /\ gens < MaxGens
    /\ gens' = gens + 1
    /\ ret' = Step("generate.call")
    /\ UNCHANGED <<clockVars, currentQrSession, polls, hist, storeVars, runVars, pluginVars>>

GenerateReply ==
    /\ gens > 0
    /\ \E resp \in GenResponses(currentQrSession) :
        /\ currentQrSession' = GenerateSession(resp, currentQrSession, now)
        /\ hist' = HistReset(hist, resp)
        /\ ret' = GenerateReturn(resp)
    /\ gens' = gens - 1
    /\ UNCHANGED <<clockVars, polls, storeVars, runVars, pluginVars>>

----------------------------------------------------------------------------
(* parseCredentialFromUrl *)

\* a URL: its text before '?', whether it holds a '?', and the query as a
\* sequence of <<name, raw value>> pairs
Url(path, hasQ, query) == [path |-> path, hasQ |-> hasQ, query |-> query]
EmptyUrl == Url("", FALSE, <<>>)
CrossDomain == "https://passport/crossDomain"

\* URLSearchParams percent-decoding (lenient: a malformed escape is kept)
UrlDecode(s) ==
    IF s = "s%2C1" THEN "s,1"
    ELSE IF s = "%25" THEN "%"
    ELSE s

\* decodeURIComponent throws URIError on a malformed escape
Malformed(s) == s = "%"
decodeURIComponent(s) ==
    IF s = "s%2C1" THEN "s,1"
    ELSE IF s = "s%2C2" THEN "s,2"
    ELSE IF s = "%25" THEN "%"
    ELSE s

RECURSIVE ParamsGet(_, _)
\* URLSearchParams.get(name) || ''
ParamsGet(query, name) ==
    IF query = <<>> THEN ""
    ELSE IF Head(query)[1] = name THEN UrlDecode(Head(query)[2])
    ELSE ParamsGet(Tail(query), name)

\* variant: the check of the three fields is skipped
parseCredentialUnchecked(url, refreshToken, t) ==
    IF url.path = "" /\ ~url.hasQ THEN NoCred
    ELSE IF ~url.hasQ \/ url.query = <<>> THEN NoCred
    ELSE LET sessdata == ParamsGet(url.query, "SESSDATA") IN
         IF Malformed(sessdata) THEN NoCred
         ELSE [sessdata      |-> decodeURIComponent(sessdata),
               bili_jct      |-> ParamsGet(url.query, "bili_jct"),
               dedeuserid    |-> ParamsGet(url.query, "DedeUserID"),
               refresh_token |-> refreshToken,
               login_time    |-> t]

parseCredentialFromUrl(url, refreshToken, t) ==
    IF url.path = "" /\ ~url.hasQ THEN NoCred
    ELSE IF ~url.hasQ \/ url.query = <<>> THEN NoCred
    ELSE LET sessdata == ParamsGet(url.query, "SESSDATA")
             bili_jct == ParamsGet(url.query, "bili_jct")
             dedeuserid == ParamsGet(url.query, "DedeUserID")
         IN IF sessdata = "" \/ bili_jct = "" \/ dedeuserid = "" THEN NoCred
            ELSE IF Malformed(sessdata) THEN NoCred
            ELSE [sessdata      |-> decodeURIComponent(sessdata),
                  bili_jct      |-> bili_jct,
                  dedeuserid    |-> dedeuserid,
                  refresh_token |-> refreshToken,
                  login_time    |-> t]

----------------------------------------------------------------------------
(* pollQrCodeStatus *)

Query(s, j, u) ==
    (IF s = Undefined THEN <<>> ELSE << <<"SESSDATA", s>> >>) \o
    (IF j = Undefined THEN <<>> ELSE << <<"bili_jct", j>> >>) \o
    (IF u = Undefined THEN <<>> ELSE << <<"DedeUserID", u>> >>)

GoodUrl == Url(CrossDomain, TRUE, Query("s%2C1", "j1", "u1"))

\* redirect URLs the poll endpoint may return with code 0
PollUrls ==
    {GoodUrl,
     EmptyUrl,
     Url(CrossDomain, FALSE, <<>>),
     Url(CrossDomain, TRUE, Query("", "j1", "u1")),
     Url(CrossDomain, TRUE, Query("s%2C1", Undefined, "u1")),
     Url(CrossDomain, TRUE, Query("s%2C1", "j1", "")),
     Url(CrossDomain, TRUE, Query("%25", "j1", "u1"))}

PollReply(net, ok, code, dcode, url, rt) ==
    [net |-> net, ok |-> ok, code |-> code, dcode |-> dcode, url |-> url,
     refresh_token |-> rt]
NoReply == PollReply("none", FALSE, API_ERROR, UNKNOWN_CODE, EmptyUrl, Undefined)

PollResponses ==
    {PollReply("throw", FALSE, API_ERROR, UNKNOWN_CODE, EmptyUrl, Undefined),
     PollReply("ok", FALSE, API_ERROR, UNKNOWN_CODE, EmptyUrl, Undefined),
     PollReply("ok", TRUE, API_ERROR, UNKNOWN_CODE, EmptyUrl, Undefined)}
    \cup {PollReply("ok", TRUE, 0, c, EmptyUrl, Undefined) :
            c \in {WAITING, SCANNED, EXPIRED, UNKNOWN_CODE}}
    \cup {PollReply("ok", TRUE, 0, SUCCESS, u, "r1") : u \in PollUrls}

\* the envelope arrived and says code 0: data.code decides
RemoteAnswered(resp) == resp.net = "ok" /\ resp.ok /\ resp.code = 0

\* variant: without an argument and a session, a remembered key is polled
PollKeyRemembered(arg, session) ==
    IF arg # NoKey THEN arg
    ELSE IF session # NoSession THEN session.qrcode_key
    ELSE "k1"

\* const key = qrcode_key || currentQrSession?.qrcode_key
PollKey(arg, session) ==
    IF arg # NoKey THEN arg
    ELSE IF session # NoSession THEN session.qrcode_key
    ELSE NoKey

\* variant: the age in milliseconds compared with the timeout as if in seconds
PollTimedOutSeconds(session, t) ==
    session # NoSession /\ t - session.createTime > QRCODE_TIMEOUT * 1000

\* currentQrSession && Date.now() - currentQrSession.createTime > QRCODE_TIMEOUT
PollTimedOut(session, t) ==
    session # NoSession /\ t - session.createTime > QRCODE_TIMEOUT

\* the QrCodePollResult returned after the fetch, with the key polled and
\* the reply handled
PollResult(key, reply, status, message, cred) ==
    [op |-> "poll.return", key |-> key, remote |-> TRUE,
     reply |-> reply, status |-> status, message |-> message, credential |-> cred]

\* the QrCodePollResult returned before any fetch, with the qrcode_key
\* argument of the call and the key it stood for
EarlyResult(arg, key, message) ==
    [op |-> "poll.return", arg |-> arg, key |-> key, remote |-> FALSE,
     reply |-> NoReply, status |-> EXPIRED, message |-> message, credential |-> NoCred]

\* a call under way: awaiting the fetch of `key`, or awaiting saveCredential
\* with the reply handled and the credential parsed from it
Fetching(key) == [pc |-> "fetch", key |-> key, reply |-> NoReply, credential |-> NoCred]
Saved(key, reply, cred) == [pc |-> "saved", key |-> key, reply |-> reply, credential |-> cred]

\* variant: code 86090 reported as Waiting
PollStatusScannedAsWaiting(resp, cred) ==
    IF resp.net = "throw" THEN <<EXPIRED, "request exception">>
    ELSE IF ~resp.ok THEN <<EXPIRED, "network request failed">>
    ELSE IF resp.code # 0 THEN <<EXPIRED, "data.message">>
    ELSE IF resp.dcode \in {WAITING, SCANNED} THEN <<WAITING, "waiting for scan">>
    ELSE IF resp.dcode = EXPIRED THEN <<EXPIRED, "expired">>
    ELSE IF resp.dcode = SUCCESS
         THEN IF cred # NoCred THEN <<SUCCESS, "login succeeded">>
              ELSE <<EXPIRED, "credential parse failed">>
    ELSE <<EXPIRED, "unknown status">>

\* lines 132-211: the status and the message a reply is reported with
PollStatus(resp, cred) ==
    IF resp.net = "throw" THEN <<EXPIRED, "request exception">>
    ELSE IF ~resp.ok THEN <<EXPIRED, "network request failed">>
    ELSE IF resp.code # 0 THEN <<EXPIRED, "data.message">>
    ELSE IF resp.dcode = WAITING THEN <<WAITING, "waiting for scan">>
    ELSE IF resp.dcode = SCANNED THEN <<SCANNED, "scanned">>
    ELSE IF resp.dcode = EXPIRED THEN <<EXPIRED, "expired">>
    ELSE IF resp.dcode = SUCCESS
         THEN IF cred # NoCred THEN <<SUCCESS, "login succeeded">>
              ELSE <<EXPIRED, "credential parse failed">>
    ELSE <<EXPIRED, "unknown status">>

\* variant: code 86038 leaves the session in place
PollNeverClearsSession(resp) == FALSE

\* lines 172-177: whether a reply that is not a success sets currentQrSession = null
PollClearsSession(resp) == RemoteAnswered(resp) /\ resp.dcode = EXPIRED

\* history: what polls of the key of the session created last have reported
\* since its creation: "scanned" once Scanned was, "final" once Succeeded or
\* Expired was
HistMark(status) ==
    IF status = SCANNED THEN {"scanned"}
    ELSE IF status \in {SUCCESS, EXPIRED} THEN {"final"}
    ELSE {}

HistAdd(h, key, status) ==
    IF key # NoKey /\ key = h.key
    THEN [h EXCEPT !.marks = @ \cup HistMark(status)]
    ELSE h

\* lines 105-122: up to the fetch
PollCall ==
    \E arg \in {NoKey} \cup Keys :
        LET key == PollKey(arg, currentQrSession) IN
        /\ IF key = NoKey
           THEN /\ ret' = EarlyResult(arg, key, "no valid session")
                /\ UNCHANGED <<currentQrSession, polls>>
           ELSE IF PollTimedOut(currentQrSession, now)
           THEN /\ currentQrSession' = NoSession
                /\ ret' = EarlyResult(arg, key, "timed out")
                /\ UNCHANGED polls
           ELSE /\ BagCardinality(polls) < MaxPolls
                /\ polls' = polls (+) SetToBag({Fetching(key)})
                /\ ret' = [op |-> "poll.fetch", arg |-> arg, key |-> key]
                /\ UNCHANGED currentQrSession
        /\ hist' = IF ret'.op = "poll.return" THEN HistAdd(hist, key, ret'.status) ELSE hist
        /\ UNCHANGED <<clockVars, gens, storeVars, runVars, pluginVars>>

\* lines 127-204 and the catch: from the reply to the return, or, for a
\* parseable success, to the await of saveCredential (whose body has run)
PollReplyStep ==
    \E call \in BagToSet(polls), resp \in PollResponses, w \in SaveOutcomes :
        LET cred == IF RemoteAnswered(resp) /\ resp.dcode = SUCCESS
                    THEN parseCredentialFromUrl(resp.url, resp.refresh_token, now)
                    ELSE NoCred
            st == PollStatus(resp, cred)
            others == polls (-) SetToBag({call})
        IN
        /\ call.pc = "fetch"
        /\ IF st[1] = SUCCESS
           THEN /\ credential' = saveCredential(cred)
                /\ disk' = saveConfig(credential', disk, w)
                /\ polls' = others (+) SetToBag({Saved(call.key, resp, cred)})
                /\ ret' = [op |-> "poll.save", key |-> call.key, reply |-> resp]
                /\ UNCHANGED <<currentQrSession, hist>>
           ELSE /\ w = "ok"
                /\ currentQrSession' =
                      IF PollClearsSession(resp) THEN NoSession ELSE currentQrSession
                /\ ret' = PollResult(call.key, resp, st[1], st[2], NoCred)
                /\ hist' = HistAdd(hist, call.key, st[1])
                /\ polls' = others
                /\ UNCHANGED <<credential, disk>>
        /\ UNCHANGED <<clockVars, gens, fsFaults, runVars, pluginVars>>

\* lines 185-191: after the await of saveCredential
PollFinish ==
    \E call \in BagToSet(polls) :
        /\ call.pc = "saved"
        /\ currentQrSession' = NoSession
        /\ ret' = PollResult(call.key, call.reply, SUCCESS, "login succeeded", call.credential)
        /\ hist' = HistAdd(hist, call.key, SUCCESS)
        /\ polls' = polls (-) SetToBag({call})
        /\ UNCHANGED <<clockVars, gens, storeVars, runVars, pluginVars>>

----------------------------------------------------------------------------
(* Credential store: usability, logout, user info *)

Cred(s, j, u, r, t) ==
    [sessdata |-> s, bili_jct |-> j, dedeuserid |-> u, refresh_token |-> r,
     login_time |-> t]

\* isLoggedIn: !!(credential?.sessdata && credential?.bili_jct && credential?.dedeuserid)
isLoggedIn(cred) ==
    IF cred = NoCred THEN FALSE
    ELSE ~Falsy(cred.sessdata) /\ ~Falsy(cred.bili_jct) /\ ~Falsy(cred.dedeuserid)

\* encodeURIComponent, on the values of the model
encodeURIComponent(s) ==
    IF s = "s,1" THEN "s%2C1"
    ELSE IF s = "s,2" THEN "s%2C2"
    ELSE IF s = "%" THEN "%25"
    ELSE s

\* default request headers carry no Cookie
NoCookie == ""

\* variant: the Cookie is attached as soon as SESSDATA is there
getAuthHeadersSessdataOnly(cred) ==
    IF cred = NoCred THEN NoCookie
    ELSE IF ~Falsy(cred.sessdata)
    THEN "SESSDATA=" \o encodeURIComponent(cred.sessdata)
         \o "; bili_jct=" \o cred.bili_jct \o "; DedeUserID=" \o cred.dedeuserid
    ELSE NoCookie

\* getAuthHeaders: the Cookie header of the result, NoCookie when it has none
getAuthHeaders(cred) ==
    IF cred = NoCred THEN NoCookie
    ELSE IF ~Falsy(cred.sessdata) /\ ~Falsy(cred.bili_jct) /\ ~Falsy(cred.dedeuserid)
    THEN "SESSDATA=" \o encodeURIComponent(cred.sessdata)
         \o "; bili_jct=" \o cred.bili_jct \o "; DedeUserID=" \o cred.dedeuserid
    ELSE NoCookie

\* clearCredential, from POST /login/logout
Logout ==
    /\ credential' = NoCred
    /\ \E w \in SaveOutcomes : disk' = saveConfig(NoCred, disk, w)
    /\ ret' = Step("logout")
    /\ UNCHANGED <<clockVars, qrVars, fsFaults, runVars, pluginVars>>

NoInfos == [getUserInfo |-> 0, getLoginStatus |-> 0]
InfoCallers == {"getUserInfo", "getLoginStatus"}

InfoReply(net, ok, code) == [net |-> net, ok |-> ok, code |-> code]
NoInfoReply == InfoReply("none", FALSE, API_ERROR)
InfoResponses ==
    {InfoReply("throw", FALSE, API_ERROR),
     InfoReply("ok", FALSE, API_ERROR),
     InfoReply("ok", TRUE, 0),
     InfoReply("ok", TRUE, NOT_LOGGED_IN),
     InfoReply("ok", TRUE, API_ERROR)}

\* variant: any refusal of the remote clears the credential
UserInfoClearsOnAnyError(resp) == resp.net = "ok" /\ resp.ok /\ resp.code # 0

\* lines 314-320: data.code === -101 clears the credential
UserInfoClears(resp) == resp.net = "ok" /\ resp.ok /\ resp.code = NOT_LOGGED_IN

InfoReturn(caller, remote, resp) ==
    [op |-> "userinfo.return", caller |-> caller, remote |-> remote, reply |-> resp]

\* getUserInfo, or getLoginStatus calling it, up to the fetch
GetUserInfoCall ==
    \E caller \in InfoCallers :
        /\ uinfo.getUserInfo + uinfo.getLoginStatus < MaxInfos
        /\ IF caller = "getLoginStatus" /\ ~isLoggedIn(credential)
           THEN ret' = InfoReturn(caller, FALSE, NoInfoReply) /\ UNCHANGED uinfo
           ELSE IF credential = NoCred
           THEN ret' = InfoReturn(caller, FALSE, NoInfoReply) /\ UNCHANGED uinfo
           ELSE /\ uinfo' = [uinfo EXCEPT ![caller] = @ + 1]
                /\ ret' = [op |-> "userinfo.fetch", caller |-> caller]
        /\ UNCHANGED <<clockVars, qrVars, storeVars, refresh, pluginVars>>

\* getUserInfo from the reply on
GetUserInfoReply ==
    \E caller \in InfoCallers, resp \in InfoResponses, w \in SaveOutcomes :
        /\ uinfo[caller] > 0
        /\ uinfo' = [uinfo EXCEPT ![caller] = @ - 1]
        /\ IF UserInfoClears(resp)
           THEN /\ credential' = NoCred
                /\ disk' = saveConfig(NoCred, disk, w)
           ELSE /\ w = "ok"
                /\ UNCHANGED <<credential, disk>>
        /\ ret' = InfoReturn(caller, TRUE, resp)
        /\ UNCHANGED <<clockVars, qrVars, fsFaults, refresh, pluginVars>>

----------------------------------------------------------------------------
(* PluginState: setConfig, replaceConfig, saveConfig, loadConfig *)

\* what a configuration object says about the credential: no such key, null,
\* or an object, of which the fields it lacks are Undefined / NoTime
ConfigWithout == [hasCredential |-> FALSE, credential |-> NoCred]
ConfigWith(cred) == [hasCredential |-> TRUE, credential |-> cred]
ConfigInputs ==
    {ConfigWithout,
     ConfigWith(NoCred),
     ConfigWith(Cred("s3", "j3", "u3", "r3", NoTime)),
     ConfigWith(Cred("", Undefined, Undefined, Undefined, NoTime))}

\* deepMerge on the credential key: null overwrites, an object is merged
\* field by field into the target (or into {})
deepMerge(target, source) ==
    IF ~source.hasCredential THEN target
    ELSE IF source.credential = NoCred THEN NoCred
    ELSE LET base == IF target = NoCred
                     THEN Cred(Undefined, Undefined, Undefined, Undefined, NoTime)
                     ELSE target
             src == source.credential
         IN Cred(IF src.sessdata = Undefined THEN base.sessdata ELSE src.sessdata,
                 IF src.bili_jct = Undefined THEN base.bili_jct ELSE src.bili_jct,
                 IF src.dedeuserid = Undefined THEN base.dedeuserid ELSE src.dedeuserid,
                 IF src.refresh_token = Undefined THEN base.refresh_token
                 ELSE src.refresh_token,
                 IF src.login_time = NoTime THEN base.login_time ELSE src.login_time)

\* getDefaultConfig(): no credential
DefaultCredential == NoCred

\* setConfig, from POST /config and plugin_on_config_change
SetConfig ==
    \E input \in ConfigInputs, w \in SaveOutcomes :
        /\ credential' = deepMerge(credential, input)
        /\ disk' = saveConfig(credential', disk, w)
        /\ ret' = [op |-> "setConfig", input |-> input]
        /\ UNCHANGED <<clockVars, qrVars, fsFaults, runVars, pluginVars>>

\* replaceConfig, from plugin_set_config
ReplaceConfig ==
    \E input \in ConfigInputs, w \in SaveOutcomes :
        /\ credential' = deepMerge(DefaultCredential, input)
        /\ disk' = saveConfig(credential', disk, w)
        /\ ret' = [op |-> "replaceConfig", input |-> input]
        /\ UNCHANGED <<clockVars, qrVars, fsFaults, runVars, pluginVars>>

\* saveConfig alone, as from incrementParsedCount
SaveConfig ==
    /\ \E w \in SaveOutcomes :
         /\ disk' = saveConfig(credential, disk, w)
         /\ ret' = [op |-> "saveConfig", outcome |-> w]
    /\ UNCHANGED <<clockVars, qrVars, credential, fsFaults, runVars, pluginVars>>

\* sanitizeConfig, lines 66-86: decrypt the fields, keep the credential only
\* if the three primary fields are non-empty
sanitizeConfig(raw) ==
    IF raw = NoCred THEN NoCred
    ELSE LET field(cell) == IF cell.text = Undefined THEN "" ELSE decryptString(cell)
             cred == Cred(field(raw.sessdata), field(raw.bili_jct), field(raw.dedeuserid),
                          IF raw.refresh_token.text = Undefined THEN Undefined
                          ELSE decryptString(raw.refresh_token),
                          raw.login_time)
         IN IF cred.sessdata # "" /\ cred.bili_jct # "" /\ cred.dedeuserid # ""
            THEN cred ELSE NoCred

\* loadConfig: the file read and sanitized; unreadable, the default config
LoadConfig ==
    /\ \E readOk \in (IF fsFaults THEN BOOLEAN ELSE {TRUE}) :
         /\ credential' = IF readOk THEN sanitizeConfig(disk) ELSE DefaultCredential
         /\ ret' = [op |-> "loadConfig", readOk |-> readOk]
    /\ UNCHANGED <<clockVars, qrVars, disk, fsFaults, runVars, pluginVars>>

----------------------------------------------------------------------------
(* Cookie refresh: performCookieRefresh and its helpers *)

\* a run under way: the request it awaits, the credential read at its
\* start, the refresh_csrf scraped and the new credential built
Run(pc, cred, refreshCsrf, newCred) ==
    [pc |-> pc, credential |-> cred, refreshCsrf |-> refreshCsrf,
     newCredential |-> newCred]

\* a step of a run: the stage whose reply it handled, the reply, and for a
\* return the value returned and the new credential built so far
RunStep(name, stage, reply, value, newCred) ==
    [op |-> name, stage |-> stage, reply |-> reply, value |-> value,
     newCredential |-> newCred]
NoRunReply == [net |-> "none"]

\* replies of the needs-refresh endpoint, as checkNeedRefresh sees them
CheckReply(net, code, needed) == [net |-> net, code |-> code, refresh |-> needed]
CheckResponses ==
    {CheckReply("throw", API_ERROR, FALSE),
     CheckReply("ok", API_ERROR, FALSE),
     CheckReply("ok", 0, FALSE),
     CheckReply("ok", 0, TRUE)}

\* checkNeedRefresh returns null
checkNeedRefreshFails(resp) == resp.net = "throw" \/ resp.code # 0

\* replies of the correspond page: the text of <div id="1-name">, if any
CsrfReply(net, marker) == [net |-> net, marker |-> marker]
CsrfResponses ==
    {CsrfReply("throw", Undefined), CsrfReply("ok", Undefined), CsrfReply("ok", "c1")}

\* getRefreshCsrf: null when the fetch throws or the marker is missing
getRefreshCsrf(resp) ==
    IF resp.net = "throw" \/ Falsy(resp.marker) THEN Undefined ELSE resp.marker

\* the set-cookie header: the raw value of each cookie it sets
SetCookie(s, j, u) == [sessdata |-> s, bili_jct |-> j, dedeuserid |-> u]
NoSetCookie == SetCookie(Undefined, Undefined, Undefined)

\* parseSetCookie: a value is taken where NAME=([^;]+) matches
parseSetCookie(header) ==
    [sessdata   |-> IF Falsy(header.sessdata) THEN Undefined
                    ELSE decodeURIComponent(header.sessdata),
     bili_jct   |-> IF Falsy(header.bili_jct) THEN Undefined ELSE header.bili_jct,
     dedeuserid |-> IF Falsy(header.dedeuserid) THEN Undefined ELSE header.dedeuserid]

\* replies of the refresh endpoint: envelope code, data.refresh_token and
\* the set-cookie header; "throw" when fetch or json() rejects or data is missing
RefreshReply(net, code, rt, header) ==
    [net |-> net, code |-> code, refresh_token |-> rt, header |-> header]
RefreshResponses ==
    {RefreshReply("throw", API_ERROR, Undefined, NoSetCookie),
     RefreshReply("ok", API_ERROR, Undefined, NoSetCookie),
     RefreshReply("ok", 0, "r2", NoSetCookie),
     RefreshReply("ok", 0, "r2", SetCookie("s%2C2", Undefined, "u2")),
     RefreshReply("ok", 0, "r2", SetCookie(Undefined, "j2", "u2")),
     RefreshReply("ok", 0, "r2", SetCookie("%", "j2", "u2")),
     RefreshReply("ok", 0, "r2", SetCookie("s%2C2", "j2", Undefined)),
     RefreshReply("ok", 0, "r2", SetCookie("s%2C2", "j2", "u2")),
     RefreshReply("ok", 0, Undefined, SetCookie("s%2C2", "j2", "u2"))}

\* lines 583-604: the refresh step ends the run with false
RefreshStepFails(resp) ==
    \/ resp.net = "throw"
    \/ resp.code # 0
    \/ ~Falsy(resp.header.sessdata) /\ Malformed(resp.header.sessdata)
    \/ Falsy(parseSetCookie(resp.header).sessdata)
    \/ Falsy(parseSetCookie(resp.header).bili_jct)

\* variant: the account id is taken from the cookies alone
NewCredentialFromCookies(cred, cookies, newRefreshToken, t) ==
    Cred(IF Falsy(cookies.sessdata) THEN cred.sessdata ELSE cookies.sessdata,
         IF Falsy(cookies.bili_jct) THEN cred.bili_jct ELSE cookies.bili_jct,
         cookies.dedeuserid,
         newRefreshToken,
         t)

\* lines 606-614: the new credential
NewCredential(cred, cookies, newRefreshToken, t) ==
    Cred(IF Falsy(cookies.sessdata) THEN cred.sessdata ELSE cookies.sessdata,
         IF Falsy(cookies.bili_jct) THEN cred.bili_jct ELSE cookies.bili_jct,
         IF Falsy(cookies.dedeuserid) THEN cred.dedeuserid ELSE cookies.dedeuserid,
         newRefreshToken,
         t)

\* replies of the confirmation endpoint
ConfirmReply(net, code) == [net |-> net, code |-> code]
ConfirmResponses ==
    {ConfirmReply("throw", API_ERROR), ConfirmReply("ok", API_ERROR), ConfirmReply("ok", 0)}

\* lines 632-657: the confirmation fetch or its json() throws into the catch
ConfirmThrows(resp) == resp.net = "throw"

\* variant: the new credential is saved in a finally block
ConfirmSavesAlways(resp) == TRUE

\* lines 643-651: saveCredential is reached unless the catch was entered
ConfirmSaves(resp) == ~ConfirmThrows(resp)

\* getCookieString: the Cookie header built from a credential
getCookieString(cred) ==
    "SESSDATA=" \o encodeURIComponent(cred.sessdata)
    \o "; bili_jct=" \o cred.bili_jct \o "; DedeUserID=" \o cred.dedeuserid

\* a request of a run: the endpoint, the Cookie header, and the csrf,
\* refresh_csrf and refresh_token parameters (Undefined where not sent)
Request(api, cookie, csrf, refreshCsrf, refreshToken) ==
    [api |-> api, Cookie |-> cookie, csrf |-> csrf, refresh_csrf |-> refreshCsrf,
     refresh_token |-> refreshToken]

\* variant: the confirmation request is built from the old credential
RequestOfConfirmWithOldCookie(run) ==
    IF run.pc = "check"
    THEN Request("COOKIE_INFO_API", getCookieString(run.credential),
                 run.credential.bili_jct, Undefined, Undefined)
    ELSE IF run.pc = "csrf"
    THEN Request("CORRESPOND_API", getCookieString(run.credential),
                 Undefined, Undefined, Undefined)
    ELSE IF run.pc = "refresh"
    THEN Request("COOKIE_REFRESH_API", getCookieString(run.credential),
                 run.credential.bili_jct, run.refreshCsrf, run.credential.refresh_token)
    ELSE Request("CONFIRM_REFRESH_API", getCookieString(run.credential),
                 run.credential.bili_jct, Undefined, run.credential.refresh_token)

\* the request a run under way has issued and awaits: lines 479-487 for the
\* needs-refresh query, 511-519 for the correspond page, 575-589 for the
\* refresh POST, 628-640 for the confirmation POST
RequestOf(run) ==
    IF run.pc = "check"
    THEN Request("COOKIE_INFO_API", getCookieString(run.credential),
                 run.credential.bili_jct, Undefined, Undefined)
    ELSE IF run.pc = "csrf"
    THEN Request("CORRESPOND_API", getCookieString(run.credential),
                 Undefined, Undefined, Undefined)
    ELSE IF run.pc = "refresh"
    THEN Request("COOKIE_REFRESH_API", getCookieString(run.credential),
                 run.credential.bili_jct, run.refreshCsrf, run.credential.refresh_token)
    ELSE Request("CONFIRM_REFRESH_API", getCookieString(run.newCredential),
                 run.newCredential.bili_jct, Undefined, run.credential.refresh_token)

\* lines 540-549: up to the await of checkNeedRefresh
performCookieRefresh ==
    IF credential = NoCred \/ Falsy(credential.refresh_token)
    THEN /\ ret' = RunStep("refresh.return", "start", NoRunReply, FALSE, NoCred)
         /\ UNCHANGED refresh
    ELSE /\ BagCardinality(refresh) < MaxRuns
         /\ refresh' = refresh (+) SetToBag({Run("check", credential, Undefined, NoCred)})
         /\ ret' = RunStep("refresh.check", "start", NoRunReply, FALSE, NoCred)

\* a call of performCookieRefresh
RefreshCall ==
    /\ performCookieRefresh
    /\ UNCHANGED <<clockVars, qrVars, storeVars, uinfo, pluginVars>>

\* variant: the answer "no refresh needed" is ignored
RefreshCheckReplyIgnoresAnswer ==
    \E run \in BagToSet(refresh), resp \in CheckResponses :
        LET others == refresh (-) SetToBag({run}) IN
        /\ run.pc = "check"
        /\ IF checkNeedRefreshFails(resp)
           THEN /\ ret' = RunStep("refresh.return", "check", resp, FALSE, NoCred)
                /\ refresh' = others
           ELSE /\ ret' = RunStep("refresh.csrf", "check", resp, FALSE, NoCred)
                /\ refresh' = others (+) SetToBag({[run EXCEPT !.pc = "csrf"]})
        /\ UNCHANGED <<clockVars, qrVars, storeVars, uinfo, pluginVars>>

\* lines 549-563: from the reply of the needs-refresh query to the fetch of
\* the correspond page
RefreshCheckReply ==
    \E run \in BagToSet(refresh), resp \in CheckResponses :
        LET others == refresh (-) SetToBag({run}) IN
        /\ run.pc = "check"
        /\ IF checkNeedRefreshFails(resp)
           THEN /\ ret' = RunStep("refresh.return", "check", resp, FALSE, NoCred)
                /\ refresh' = others
           ELSE IF ~resp.refresh
           THEN /\ ret' = RunStep("refresh.return", "check", resp, TRUE, NoCred)
                /\ refresh' = others
           ELSE /\ ret' = RunStep("refresh.csrf", "check", resp, FALSE, NoCred)
                /\ refresh' = others (+) SetToBag({[run EXCEPT !.pc = "csrf"]})
        /\ UNCHANGED <<clockVars, qrVars, storeVars, uinfo, pluginVars>>

\* lines 563-590: from the correspond page to the refresh POST
RefreshCsrfReply ==
    \E run \in BagToSet(refresh), resp \in CsrfResponses :
        LET refreshCsrf == getRefreshCsrf(resp)
            others == refresh (-) SetToBag({run})
        IN
        /\ run.pc = "csrf"
        /\ IF Falsy(refreshCsrf)
           THEN /\ ret' = RunStep("refresh.return", "csrf", resp, FALSE, NoCred)
                /\ refresh' = others
           ELSE /\ ret' = RunStep("refresh.refresh", "csrf", resp, FALSE, NoCred)
                /\ refresh' = others (+) SetToBag({[run EXCEPT !.pc = "refresh",
                                                               !.refreshCsrf = refreshCsrf]})
        /\ UNCHANGED <<clockVars, qrVars, storeVars, uinfo, pluginVars>>

\* lines 590-641: from the reply of the refresh POST to the confirmation POST
RefreshReplyStep ==
    \E run \in BagToSet(refresh), resp \in RefreshResponses :
        LET others == refresh (-) SetToBag({run}) IN
        /\ run.pc = "refresh"
        /\ IF RefreshStepFails(resp)
           THEN /\ ret' = RunStep("refresh.return", "refresh", resp, FALSE, NoCred)
                /\ refresh' = others
           ELSE LET newCredential ==
                        NewCredential(run.credential, parseSetCookie(resp.header),
                                      resp.refresh_token, now)
                IN /\ ret' = RunStep("refresh.confirm", "refresh", resp, FALSE, newCredential)
                   /\ refresh' = others (+) SetToBag({[run EXCEPT !.pc = "confirm",
                                                        !.newCredential = newCredential]})
        /\ UNCHANGED <<clockVars, qrVars, storeVars, uinfo, pluginVars>>

\* lines 641-657: from the reply of the confirmation POST to the return
RefreshConfirmReply ==
    \E run \in BagToSet(refresh), resp \in ConfirmResponses, w \in SaveOutcomes :
        /\ run.pc = "confirm"
        /\ IF ConfirmSaves(resp)
           THEN /\ credential' = saveCredential(run.newCredential)
                /\ disk' = saveConfig(credential', disk, w)
           ELSE /\ w = "ok"
                /\ UNCHANGED <<credential, disk>>
        /\ ret' = RunStep("refresh.return", "confirm", resp, ~ConfirmThrows(resp),
                          run.newCredential)
        /\ refresh' = refresh (-) SetToBag({run})
        /\ UNCHANGED <<clockVars, qrVars, fsFaults, uinfo, pluginVars>>

----------------------------------------------------------------------------
(* getHighestQualityStreams: the stream selector *)

\* a stream of the manifest: its quality id, its bandwidth and its URL
Stream(id, bandwidth, url) == [id |-> id, bandwidth |-> bandwidth, url |-> url]
\* null for a stream; undefined for dashInfo.flac?.audio
NoStream == [none |-> TRUE]
\* no DashPlayInfo
NoDash == [none |-> TRUE]
\* a DashPlayInfo: video, audio, dolby.audio (each a list) and flac.audio
Dash(video, audio, dolby, flac) ==
    [video |-> video, audio |-> audio, dolby |-> dolby, flac |-> flac]

\* VIDEO_QUALITY_MAP[configQuality]; undefined for any other string
NoTier == 0 - 1
VIDEO_QUALITY_MAP(q) ==
    CASE q = "4k" -> 120
      [] q = "1080p60" -> 116
      [] q = "1080p" -> 80
      [] q = "720p" -> 64
      [] q = "480p" -> 32
      [] q = "360p" -> 16
      [] OTHER -> NoTier

\* part_004:626-636, getRequestedQualityId, on config.videoQuality and
\* config.credential
getRequestedQualityId(configQuality, cred) ==
    LET quality == IF Falsy(configQuality) THEN "auto" ELSE configQuality
        isLogged == cred # NoCred /\ ~Falsy(cred.sessdata)
    IN IF quality = "auto" THEN (IF isLogged THEN 116 ELSE 80)
       ELSE IF VIDEO_QUALITY_MAP(quality) = NoTier THEN 80
       ELSE VIDEO_QUALITY_MAP(quality)

\* part_004:661-671, the parameters qn, fourk and fnval of the request of
\* fetchVideoDashInfo
DashRequest(configQuality, cred) ==
    LET isLogged == cred # NoCred /\ ~Falsy(cred.sessdata)
    IN [qn |-> getRequestedQualityId(configQuality, cred),
        fourk |-> IF isLogged THEN "1" ELSE "0",
        fnval |-> "4048"]

\* the positions of a list
Positions(list) == 1 .. Len(list)

\* variant: the list is sorted by ascending id
HighestFirstAscending(list, among) ==
    list[CHOOSE i \in among :
            \A j \in among : /\ list[j].id >= list[i].id
                             /\ j < i => list[j].id > list[i].id]

\* [...].sort((a, b) => b.id - a.id)[0] over the positions `among`: the sort
\* is stable, so the first of the streams of greatest id
HighestFirst(list, among) ==
    list[CHOOSE i \in among :
            \A j \in among : /\ list[j].id <= list[i].id
                             /\ j < i => list[j].id < list[i].id]

\* [...].sort((a, b) => a.id - b.id)[0]: the first of the streams of least id
LowestFirst(list, among) ==
    list[CHOOSE i \in among :
            \A j \in among : /\ list[j].id >= list[i].id
                             /\ j < i => list[j].id > list[i].id]

\* variant: without an exact match the lowest stream is taken
SelectVideoExactOrLowest(video, quality) ==
    IF video = <<>> THEN NoStream
    ELSE IF Falsy(quality) \/ quality = "auto" THEN HighestFirst(video, Positions(video))
    ELSE LET targetQualityId == VIDEO_QUALITY_MAP(quality)
             exact == {i \in Positions(video) : video[i].id = targetQualityId}
         IN IF exact # {} THEN video[CHOOSE i \in exact : \A j \in exact : i <= j]
            ELSE LowestFirst(video, Positions(video))

\* lines 728-756: the video stream selected
SelectVideo(video, quality) ==
    IF video = <<>> THEN NoStream
    ELSE IF Falsy(quality) \/ quality = "auto" THEN HighestFirst(video, Positions(video))
    ELSE LET targetQualityId == VIDEO_QUALITY_MAP(quality)
             exact == {i \in Positions(video) : video[i].id = targetQualityId}
             lowerOrEqual == {i \in Positions(video) :
                                targetQualityId # NoTier /\ video[i].id <= targetQualityId}
         IN IF exact # {} THEN video[CHOOSE i \in exact : \A j \in exact : i <= j]
            ELSE IF lowerOrEqual # {} THEN HighestFirst(video, lowerOrEqual)
            ELSE LowestFirst(video, Positions(video))

\* lines 764-779: the regular, Dolby and FLAC candidates as one list
AudioStreams(dash) ==
    dash.audio \o dash.dolby \o (IF dash.flac = NoStream THEN <<>> ELSE <<dash.flac>>)

\* lines 783-797: the comparator of the audio sort
AudioCompare(a, b) ==
    IF a.id = 30251 THEN 0 - 1
    ELSE IF b.id = 30251 THEN 1
    ELSE IF a.id = 30250 THEN 0 - 1
    ELSE IF b.id = 30250 THEN 1
    ELSE b.bandwidth - a.bandwidth

\* audioStreams.sort(compare)[0]: the candidates that can come first.  The
\* sort is stable where the comparator is consistent.  For two candidates of
\* id 30251, or two of id 30250, it answers -1 both ways, which is no
\* consistent comparator: their order is left to the engine, and any of them
\* can come first.
AudioHeads(list) ==
    IF list = <<>> THEN {NoStream}
    ELSE LET before(i, j) == AudioCompare(list[i], list[j]) < 0
             top == {i \in Positions(list) :
                        \A j \in Positions(list) \ {i} : ~before(j, i) \/ before(i, j)}
             tied == {i \in top : \E j \in top \ {i} : before(i, j) /\ before(j, i)}
         IN IF tied # {} THEN {list[i] : i \in tied}
            ELSE {list[CHOOSE i \in top : \A j \in top : i <= j]}

\* the results getHighestQualityStreams can return
getHighestQualityStreams(dash, quality) ==
    {[video |-> SelectVideo(dash.video, quality), audio |-> a] :
        a \in AudioHeads(AudioStreams(dash))}

\* a call of getHighestQualityStreams(dashInfo) under the configured quality
SelectStreams ==
    /\ dashInfo # NoDash
    /\ \E result \in getHighestQualityStreams(dashInfo, videoQuality) :
          ret' = [op |-> "streams", video |-> result.video, audio |-> result.audio]
    /\ UNCHANGED <<clockVars, qrVars, storeVars, runVars, pluginVars>>

----------------------------------------------------------------------------
(* handleMessage and the dedup cache *)

\* variant: the key leaves the group out
CacheKeyVideoOnly(groupId, bvid) == bvid

\* part_001:453 and 471, the key `${groupId}:${bvid}`
CacheKey(groupId, bvid) == groupId \o ":" \o bvid

\* new Map()
EmptyCache == [key \in {} |-> 0]
\* the cache after parseCache.delete of each of the keys
CacheWithout(cache, keys) == [key \in DOMAIN cache \ keys |-> cache[key]]

\* isInParseCache at time t: its answer, and the cache it leaves
isInParseCache(cache, groupId, bvid, t) ==
    LET key == CacheKey(groupId, bvid)
    IN IF key \notin DOMAIN cache THEN [found |-> FALSE, cache |-> cache]
       ELSE IF t > cache[key]
            THEN [found |-> FALSE, cache |-> CacheWithout(cache, {key})]
            ELSE [found |-> TRUE, cache |-> cache]

\* variant: cleanExpiredCache deletes nothing
cleanExpiredCacheKeepsAll(cache, t) == cache

\* cleanExpiredCache at time t
cleanExpiredCache(cache, t) ==
    CacheWithout(cache, {key \in DOMAIN cache : t > cache[key]})

\* (this.config.parseCacheTTL || 300), in seconds
InsertTTL(configTTL) == IF configTTL = 0 THEN 300 ELSE configTTL

\* addToParseCache at time t
addToParseCache(cache, groupId, bvid, configTTL, t) ==
    LET key == CacheKey(groupId, bvid)
        ttl == InsertTTL(configTTL) * 1000
        added == [k \in DOMAIN cache \cup {key} |->
                     IF k = key THEN t + ttl ELSE cache[k]]
    IN IF Cardinality(DOMAIN added) > 100 THEN cleanExpiredCache(added, t) ELSE added

\* null for a video id, for the video info and for the path of the file
NoVideoId == "<null>"
NoInfo == [none |-> TRUE]
NoFile == [none |-> TRUE]

\* A text is a sequence of tokens, each a maximal piece of the text that one
\* of the patterns matches, or a word that none matches:
\*   "url"   a video URL (BILI_VIDEO_URL_PATTERN) that holds a BV id or an av id
\*   "bare"  a BV id (BILI_BV_PATTERN) or an av id (BILI_AV_PATTERN) between
\*           word boundaries, outside a URL
\*   "short" a short link (BILI_SHORT_LINK_PATTERN)
\*   "word"  anything else
\* The BV and av patterns also match the id inside a "url" token.
BvId(s) == [tag |-> "bv", s |-> s, n |-> 0]
AvId(n) == [tag |-> "av", s |-> "", n |-> n]
NoId == [tag |-> "none", s |-> "", n |-> 0]
UrlToken(id) == [kind |-> "url", id |-> id]
BareToken(id) == [kind |-> "bare", id |-> id]
ShortToken == [kind |-> "short", id |-> NoId]
WordToken == [kind |-> "word", id |-> NoId]

\* text.match(pattern) of a pattern without the g flag: the leftmost match,
\* as the position of its token, or 0 for null
\* among the positions `at` where the pattern matches
FirstMatch(at) ==
    IF at = {} THEN 0 ELSE CHOOSE i \in at : \A j \in at : i <= j

\* what each pattern matches
MatchesVideoUrl(token) == token.kind = "url"
MatchesBv(token) == token.kind \in {"url", "bare"} /\ token.id.tag = "bv"
MatchesAv(token) == token.kind \in {"url", "bare"} /\ token.id.tag = "av"
MatchesShortLink(token) == token.kind = "short"

\* null for an av id, and for a resolved URL
NoAvid == 0 - 1
NoUrl == <<[kind |-> "null", id |-> NoId]>>

\* variant of extractBvid: the bare pattern is tried before the URL
extractBvidBareFirst(text) ==
    LET bvMatch == FirstMatch({i \in DOMAIN text : text[i].kind = "bare" /\ text[i].id.tag = "bv"})
        urlMatch == FirstMatch({i \in DOMAIN text : MatchesVideoUrl(text[i])})
    IN IF bvMatch # 0 THEN text[bvMatch].id.s
       ELSE IF urlMatch # 0 /\ text[urlMatch].id.tag = "bv" THEN text[urlMatch].id.s
       ELSE NoVideoId

\* extractBvid: the id of the first video URL if it is a BV id, else the
\* first BV id anywhere in the text, with the prefix written BV
extractBvid(text) ==
    LET urlMatch == FirstMatch({i \in DOMAIN text : MatchesVideoUrl(text[i])})
        bvMatch == FirstMatch({i \in DOMAIN text : MatchesBv(text[i])})
    IN IF urlMatch # 0 /\ text[urlMatch].id.tag = "bv" THEN text[urlMatch].id.s
       ELSE IF bvMatch # 0 THEN text[bvMatch].id.s
       ELSE NoVideoId

\* extractAvid: the number of the first video URL if it is an av id, else
\* the first av number anywhere in the text
extractAvid(text) ==
    LET urlMatch == FirstMatch({i \in DOMAIN text : MatchesVideoUrl(text[i])})
        avMatch == FirstMatch({i \in DOMAIN text : MatchesAv(text[i])})
    IN IF urlMatch # 0 /\ text[urlMatch].id.tag = "av" THEN text[urlMatch].id.n
       ELSE IF avMatch # 0 THEN text[avMatch].id.n
       ELSE NoAvid

\* `av${aid}`
AvString(aid) == "av" \o ToString(aid)

\* extractShortLink: whether the text holds a short link
extractShortLink(text) == FirstMatch({i \in DOMAIN text : MatchesShortLink(text[i])}) # 0

\* the outcome of a fetch of the short link: it threw, or the URL the
\* response ended at
Threw == <<[kind |-> "threw", id |-> NoId]>>

\* the requests resolveShortUrl issues
ShortUrlRequests(head) == IF head = Threw THEN <<"HEAD", "GET">> ELSE <<"HEAD">>

\* variant of resolveShortUrl: no GET after a HEAD that threw
resolveShortUrlHeadOnly(head, get) == IF head # Threw THEN head ELSE NoUrl

\* resolveShortUrl: the URL of the response to HEAD, or when HEAD threw of
\* the response to GET, or null when both threw
resolveShortUrl(head, get) ==
    IF head # Threw THEN head
    ELSE IF get # Threw THEN get
    ELSE NoUrl

\* whether a call of extractVideoId on the text resolves the short link
ResolvesShortLink(text) ==
    /\ extractBvid(text) = NoVideoId
    /\ extractAvid(text) \in {NoAvid, 0}
    /\ extractShortLink(text)

\* extractVideoId, with the outcomes of the two fetches of resolveShortUrl
extractVideoId(text, head, get) ==
    LET bvid == extractBvid(text)
        aid == extractAvid(text)
        realUrl == resolveShortUrl(head, get)
    IN IF bvid # NoVideoId THEN bvid
       ELSE IF aid # NoAvid /\ aid # 0 THEN AvString(aid)
       ELSE IF extractShortLink(text) /\ realUrl # NoUrl
       THEN (IF extractBvid(realUrl) # NoVideoId THEN extractBvid(realUrl)
             ELSE IF extractAvid(realUrl) \notin {NoAvid, 0}
             THEN AvString(extractAvid(realUrl))
             ELSE NoVideoId)
       ELSE NoVideoId

\* what the request of fetchVideoInfo meets: fetch threw or resolved, the
\* status is a success or not, the body parses as JSON or not, the code of
\* the body, and its data (null, or the info)
VideoReply(net, ok, body, code, data) ==
    [net |-> net, ok |-> ok, body |-> body, code |-> code, data |-> data]

\* variant of fetchVideoInfo: the code of the body is not looked at
fetchVideoInfoAnyCode(reply) ==
    IF reply.net = "threw" THEN NoInfo
    ELSE IF ~reply.ok THEN NoInfo
    ELSE IF reply.body = "malformed" THEN NoInfo
    ELSE reply.data

\* fetchVideoInfo: every throw in its body is caught and yields null (fetch,
\* response.json(), and data.data.title of a null data)
fetchVideoInfo(reply) ==
    IF reply.net = "threw" THEN NoInfo
    ELSE IF ~reply.ok THEN NoInfo
    ELSE IF reply.body = "malformed" THEN NoInfo
    ELSE IF reply.code # 0 THEN NoInfo
    ELSE IF reply.data = NoInfo THEN NoInfo
    ELSE reply.data

\* parseAndFetchVideoInfo: the identity is extracted from the text again,
\* the short link resolved again, and the info is asked for when there is one
parseAndFetchVideoInfo(rawMessage, head, get, reply) ==
    IF extractVideoId(rawMessage, head, get) = NoVideoId THEN NoInfo
    ELSE fetchVideoInfo(reply)

\* variant of mergeVideoAudioWithFFmpeg: a rejected exec is not noticed
mergeVideoAudioAlwaysResolves(exec) == TRUE

\* mergeVideoAudioWithFFmpeg: whether exec of ffmpeg resolved
mergeVideoAudioWithFFmpeg(exec) == exec = "ok"

\* the outcomes of the remote and local steps of a downloadDashVideo call,
\* and the maxSizeMB it is called with.  A downloadStream that fails has
\* written nothing, or (videoLeft, audioLeft) its writeFileSync threw after
\* it created the file.
Probe(dash, videoSuccess, videoLeft, videoSizeMB, audioSuccess, audioLeft, exec, outputSizeMB, maxSizeMB) ==
    [dash |-> dash, videoSuccess |-> videoSuccess, videoLeft |-> videoLeft,
     videoSizeMB |-> videoSizeMB, audioSuccess |-> audioSuccess,
     audioLeft |-> audioLeft, exec |-> exec, outputSizeMB |-> outputSizeMB,
     maxSizeMB |-> maxSizeMB]
\* no downloadDashVideo call is made
NoProbe == [none |-> TRUE]

\* variant: the size of the video stream is not compared with the limit
downloadDashVideoAnySize(p, streams) ==
    IF p.dash = NoDash THEN NoFile
    ELSE IF streams.video = NoStream \/ streams.audio = NoStream THEN NoFile
    ELSE IF streams.video.url = "" \/ streams.audio.url = "" THEN NoFile
    ELSE IF ~p.videoSuccess THEN NoFile
    ELSE IF ~p.audioSuccess THEN NoFile
    ELSE IF ~mergeVideoAudioWithFFmpeg(p.exec) THEN NoFile
    ELSE [sizeMB |-> p.outputSizeMB]

\* downloadDashVideo: the file it returns, or null
downloadDashVideo(p, streams) ==
    IF p.dash = NoDash THEN NoFile
    ELSE IF streams.video = NoStream \/ streams.audio = NoStream THEN NoFile
    ELSE IF streams.video.url = "" \/ streams.audio.url = "" THEN NoFile
    ELSE IF ~p.videoSuccess THEN NoFile
    ELSE IF p.videoSizeMB > p.maxSizeMB THEN NoFile
    ELSE IF ~p.audioSuccess THEN NoFile
    ELSE IF ~mergeVideoAudioWithFFmpeg(p.exec) THEN NoFile
    ELSE [sizeMB |-> p.outputSizeMB]

\* lines 1003-1106: the temporary stream files that exist when
\* downloadDashVideo returns
TempFilesLeft(p, streams) ==
    IF p.dash = NoDash THEN {}
    ELSE IF streams.video = NoStream \/ streams.audio = NoStream THEN {}
    ELSE IF streams.video.url = "" \/ streams.audio.url = "" THEN {}
    ELSE IF ~p.videoSuccess
         THEN (IF p.videoLeft THEN {"tempVideoPath"} ELSE {})
    ELSE IF p.videoSizeMB > p.maxSizeMB THEN {}
    ELSE IF ~p.audioSuccess
         THEN (IF p.audioLeft THEN {"tempAudioPath"} ELSE {})
    ELSE {}

\* part_004:1035-1039: the paths of a downloadDashVideo call.  The three are
\* `${bvid}_${timestamp}` in the one temporary directory, with the endings
\* _video.m4v, _audio.m4a and .mp4, so two calls have a path in common
\* exactly when they have the bvid and the timestamp in common.
TempPath(bvid, timestamp) == [bvid |-> bvid, timestamp |-> timestamp]
\* no path made yet
NoPath == [none |-> TRUE]

\* the file downloadDashVideo returns, at its outputPath
FileAt(file, path) ==
    IF file = NoFile THEN NoFile ELSE [sizeMB |-> file.sizeMB, path |-> path]

\* part_004:1017-1031: the manifest has a video and an audio stream with a URL
StreamsUsable(p, streams) ==
    /\ p.dash # NoDash
    /\ streams.video # NoStream /\ streams.audio # NoStream
    /\ streams.video.url # "" /\ streams.audio.url # ""

\* message-handler.ts:386-389, the delays of the cleanup timer
CLEANUP_DELAY == 60000
GROUP_FILE_CLEANUP_DELAY == 120000
\* a timer that is to remove the file at path
Cleanup(path, remaining) == [path |-> path, remaining |-> remaining]
\* the timers after d milliseconds
Elapsed(timers, d) ==
    LET after(t) == Cleanup(t.path, IF t.remaining > d THEN t.remaining - d ELSE 0)
        olds(t) == {o \in BagToSet(timers) : after(o) = t}
        Sum(set) == LET RECURSIVE sum(_)
                        sum(r) == IF r = {} THEN 0
                                  ELSE LET o == CHOOSE o \in r : TRUE
                                       IN CopiesIn(o, timers) + sum(r \ {o})
                    IN sum(set)
    IN [t \in {after(o) : o \in BagToSet(timers)} |-> Sum(olds(t))]

\* a handleMessage call at an await: where it is, and the locals it uses
\* later (rawMessage until the video info is known; sendMode and videoInfo
\* until the message is built; the paths while the streams are downloaded;
\* the file until the call returns)
Msg(pc, groupId, rawMessage, videoId, cacheTTL, sendMode, videoInfo, path, file) ==
    [pc |-> pc, groupId |-> groupId, rawMessage |-> rawMessage, videoId |-> videoId,
     cacheTTL |-> cacheTTL, sendMode |-> sendMode, videoInfo |-> videoInfo,
     path |-> path, file |-> file]

\* the messages received: a group and a text with a link
Messages ==
    {[groupId |-> "1", rawMessage |-> <<BareToken(BvId("BV1"))>>],
     [groupId |-> "1", rawMessage |-> <<ShortToken>>],
     [groupId |-> "2", rawMessage |-> <<BareToken(BvId("BV1"))>>]}
\* what a fetch of the short link of a message ends at: it threw, or a video
\* URL, or a page that is no video
Redirects == {Threw, <<UrlToken(BvId("BV2"))>>, <<WordToken>>}
\* values of config.parseCacheTTL
CacheTTLs == {0, 300}
\* parseAndFetchVideoInfo: null, or the info with or without a cid and a cover
VideoInfos == {[cid |-> c, pic |-> p] : c \in BOOLEAN, p \in BOOLEAN}
\* the reply to a request that succeeds
OkReply == VideoReply("ok", TRUE, "json", 0, [cid |-> TRUE, pic |-> TRUE])
\* the replies drawn: a step that the call does not reach has the outcome it
\* has in OkReply
VideoReplies ==
    {r \in {VideoReply(net, ok, body, code, data) :
               net \in {"ok", "threw"}, ok \in BOOLEAN,
               body \in {"json", "malformed"}, code \in {0, 0 - 400},
               data \in VideoInfos \cup {NoInfo}} :
        /\ r.net = "threw" => r.ok
        /\ ~r.ok => r.body = "json"
        /\ r.body = "malformed" => r.code = 0
        /\ (r.net = "threw" \/ ~r.ok \/ r.body = "malformed" \/ r.code # 0)
           => r.data = OkReply.data}
\* the manifests fetchVideoDashInfo answers with
ProbeManifests ==
    {NoDash,
     Dash(<<>>, <<Stream(30280, 192, "a192y")>>, <<>>, NoStream),
     Dash(<<Stream(80, 2000, "v80avc")>>, <<>>, <<>>, NoStream),
     Dash(<<Stream(80, 2000, "")>>, <<Stream(30280, 192, "a192y")>>, <<>>, NoStream),
     Dash(<<Stream(80, 2000, "v80avc")>>, <<Stream(30280, 192, "a192y")>>, <<>>, NoStream)}
\* sizes of files, in MB, and values of config.maxVideoSizeMB
SizesMB == {50, 150}
MaxSizesMB == {100, 200}
\* exec of ffmpeg: resolved, rejected for a missing binary, rejected for a
\* non-zero exit status
ExecOutcomes == {"ok", "missing", "nonzero"}
\* the outcomes drawn: the merged file is no smaller than the video stream,
\* only a download that fails leaves a file it did not finish, and a step
\* that the call does not reach has its first outcome
Probes ==
    LET usable(dash) == /\ dash # NoDash
                        /\ dash.video # <<>> /\ dash.audio # <<>>
                        /\ dash.video[1].url # ""
        unreached(p, step) ==
            CASE step = "video" -> p.videoSuccess /\ p.videoSizeMB = 50
              [] step = "audio" -> p.audioSuccess
              [] step = "exec" -> p.exec = "ok"
              [] step = "output" -> p.outputSizeMB = p.videoSizeMB
    IN {p \in {Probe(dash, vs, vl, vmb, as, al, exec, omb, max) :
                 dash \in ProbeManifests, vs \in BOOLEAN, vl \in BOOLEAN,
                 vmb \in SizesMB, as \in BOOLEAN, al \in BOOLEAN,
                 exec \in ExecOutcomes, omb \in SizesMB, max \in MaxSizesMB} :
          /\ p.outputSizeMB >= p.videoSizeMB
          /\ p.videoLeft => ~p.videoSuccess
          /\ p.audioLeft => ~p.audioSuccess
          /\ ~usable(p.dash) => unreached(p, "video")
          /\ ~p.videoSuccess => p.videoSizeMB = 50
          /\ (~usable(p.dash) \/ ~p.videoSuccess \/ p.videoSizeMB > p.maxSizeMB)
             => unreached(p, "audio")
          /\ ~p.audioSuccess => unreached(p, "exec")
          /\ (~p.audioSuccess \/ p.exec # "ok") => unreached(p, "output")}

InitHandler ==
    /\ parseCache = EmptyCache
    /\ parseCacheTTL = 300
    /\ handling = EmptyBag
    /\ inserted = EmptyCache
    /\ cleanups = EmptyBag

\* the call m of handleMessage goes on as the call next
MsgGoesOn(m, next) == handling' = (handling (-) SetToBag({m})) (+) SetToBag({next})
\* the call m of handleMessage returns
MsgReturns(m) == handling' = handling (-) SetToBag({m})

\* a step of handleMessage on the message of m
MsgStep(name, m, videoId, cause) ==
    [op |-> name, groupId |-> m.groupId, videoId |-> videoId, cause |-> cause]

\* the step of handleMessage that follows extractVideoId, with the requests
\* that resolveShortUrl issued and what they met
ExtractStep(name, m, videoId, cause, requests, head, get) ==
    [op |-> name, groupId |-> m.groupId, videoId |-> videoId, cause |-> cause,
     requests |-> requests, head |-> head, get |-> get]

\* the step of handleMessage that follows parseAndFetchVideoInfo: whether
\* the info was asked for, and the reply
InfoStep(name, m, cause, asked, reply) ==
    [op |-> name, groupId |-> m.groupId, videoId |-> m.videoId, cause |-> cause,
     asked |-> asked, reply |-> reply]

\* lines 159-199: the filters, up to the await of extractVideoId
HandleMessageAmong(limit) ==
    /\ BagCardinality(handling) < limit
    /\ BagCardinality(cleanups) < MaxTimers
    /\ \E msg \in Messages, passes \in BOOLEAN :
         IF ~passes
         THEN /\ ret' = MsgStep("msg.return", msg, NoVideoId, "filtered")
              /\ UNCHANGED handling
         ELSE /\ handling' = handling (+) SetToBag({Msg("extract", msg.groupId,
                                msg.rawMessage, NoVideoId, 0, "", NoInfo, NoPath,
                                NoFile)})
              /\ ret' = MsgStep("msg.extract", msg, NoVideoId, "")
    /\ UNCHANGED <<clockVars, qrVars, storeVars, runVars, serviceVars, streamVars,
                   parseCache, parseCacheTTL, inserted, cleanups>>

\* handleMessage, with no more than MaxMsgs calls under way
HandleMessage == HandleMessageAmong(MaxMsgs)

\* handleMessage, with calls that overlap
HandleMessageOverlapping == HandleMessageAmong(MaxOverlap)

\* lines 199-234: the video id, the lookup in the cache, the emoji, up to the
\* await of parseAndFetchVideoInfo
MsgExtracted ==
    /\ \E m \in BagToSet(handling), head \in Redirects, get \in Redirects :
         /\ m.pc = "extract"
         /\ ~ResolvesShortLink(m.rawMessage) => head = Threw
         /\ (~ResolvesShortLink(m.rawMessage) \/ head # Threw) => get = Threw
         /\ LET videoId == extractVideoId(m.rawMessage, head, get)
                requests == IF ResolvesShortLink(m.rawMessage)
                            THEN ShortUrlRequests(head) ELSE <<>>
                cacheTTL == parseCacheTTL
                look == isInParseCache(parseCache, m.groupId, videoId, now)
            IN IF videoId = NoVideoId
               THEN /\ MsgReturns(m)
                    /\ ret' = ExtractStep("msg.return", m, videoId, "no-id", requests,
                                          head, get)
                    /\ UNCHANGED parseCache
               ELSE IF cacheTTL > 0 /\ look.found
               THEN /\ MsgReturns(m)
                    /\ ret' = ExtractStep("msg.return", m, videoId, "suppressed",
                                          requests, head, get)
                    /\ parseCache' = look.cache
               ELSE /\ MsgGoesOn(m, [m EXCEPT !.pc = "info", !.videoId = videoId,
                                               !.cacheTTL = cacheTTL])
                    /\ ret' = ExtractStep("msg.info", m, videoId,
                                          IF cacheTTL > 0 THEN "looked-up"
                                          ELSE "no-lookup", requests, head, get)
                    /\ parseCache' = IF cacheTTL > 0 THEN look.cache ELSE parseCache
    /\ UNCHANGED <<clockVars, qrVars, storeVars, runVars, serviceVars, streamVars,
                   parseCacheTTL, inserted, cleanups>>

\* lines 281-348: the nodes of the forward message
ForwardNodes(videoInfo, rendered, file, useGroupFile, videoSendMode) ==
    (IF rendered THEN {"card"}
     ELSE (IF videoInfo.pic THEN {"cover"} ELSE {}) \cup {"info"})
    \cup (IF file # NoFile /\ ~useGroupFile /\ videoSendMode = "forward"
          THEN {"video"} ELSE {})

\* lines 361-378: what is sent after the forward message
SentAfter(file, useGroupFile, videoSendMode) ==
    IF file # NoFile /\ ~useGroupFile /\ videoSendMode = "separate" THEN "separate"
    ELSE IF file # NoFile /\ useGroupFile THEN "groupfile"
    ELSE "none"

\* lines 223-281: the video info arrives; in with-video mode (config.sendMode
\* as line 223 read it) with a cid the download is awaited, else the card is
\* rendered
MsgInfo ==
    /\ \E m \in BagToSet(handling), head \in Redirects, get \in Redirects,
          reply \in VideoReplies, sendMode \in {"info-only", "with-video"} :
         /\ m.pc = "info"
         /\ ~ResolvesShortLink(m.rawMessage) => head = Threw
         /\ (~ResolvesShortLink(m.rawMessage) \/ head # Threw) => get = Threw
         /\ extractVideoId(m.rawMessage, head, get) = NoVideoId => reply = OkReply
         /\ LET videoInfo == parseAndFetchVideoInfo(m.rawMessage, head, get, reply)
                asked == extractVideoId(m.rawMessage, head, get) # NoVideoId
            IN IF videoInfo = NoInfo
               THEN /\ MsgReturns(m)
                    /\ ret' = InfoStep("msg.return", m, "no-info", asked, reply)
               ELSE IF sendMode = "with-video" /\ videoInfo.cid
               THEN /\ probe # NoProbe
                    /\ MsgGoesOn(m, [m EXCEPT !.pc = "download", !.rawMessage = <<>>,
                                               !.sendMode = sendMode,
                                               !.videoInfo = videoInfo])
                    /\ ret' = InfoStep("msg.download", m, sendMode, asked, reply)
               ELSE /\ MsgGoesOn(m, [m EXCEPT !.pc = "build", !.rawMessage = <<>>,
                                               !.sendMode = sendMode,
                                               !.videoInfo = videoInfo])
                    /\ ret' = InfoStep("msg.build", m, sendMode, asked, reply)
    /\ UNCHANGED <<clockVars, qrVars, storeVars, runVars, serviceVars, streamVars,
                   parseCache, parseCacheTTL, inserted, cleanups>>

\* part_004:1003-1043: fetchVideoDashInfo returns; with usable streams the
\* paths are made from Date.now() and the download of the video stream is
\* awaited, else downloadDashVideo returns null
MsgManifest ==
    /\ probe # NoProbe
    /\ \E m \in BagToSet(handling) :
         /\ m.pc = "download"
         /\ \E streams \in (IF probe.dash = NoDash THEN {[video |-> NoStream, audio |-> NoStream]}
                            ELSE getHighestQualityStreams(probe.dash, videoQuality)) :
              IF StreamsUsable(probe, streams)
              THEN /\ MsgGoesOn(m, [m EXCEPT !.pc = "streams",
                                             !.path = TempPath(m.videoId, now)])
                   /\ ret' = [op |-> "msg.streams", groupId |-> m.groupId,
                              videoId |-> m.videoId,
                              path |-> TempPath(m.videoId, now)]
              ELSE /\ MsgGoesOn(m, [m EXCEPT !.pc = "build", !.file = NoFile])
                   /\ ret' = [op |-> "msg.downloaded", groupId |-> m.groupId,
                              videoId |-> m.videoId,
                              file |-> downloadDashVideo(probe, streams),
                              left |-> TempFilesLeft(probe, streams)]
    /\ UNCHANGED <<clockVars, qrVars, storeVars, runVars, serviceVars, streamVars,
                   parseCache, parseCacheTTL, inserted, cleanups>>

\* part_004:1043-1106 and lines 247-281: the streams are downloaded and
\* merged, downloadDashVideo returns a file or null, and the card is
\* rendered
MsgDownloaded ==
    /\ probe # NoProbe
    /\ \E m \in BagToSet(handling) :
         /\ m.pc = "streams"
         /\ \E streams \in getHighestQualityStreams(probe.dash, videoQuality) :
              LET file == FileAt(downloadDashVideo(probe, streams), m.path)
              IN /\ StreamsUsable(probe, streams)
                 /\ MsgGoesOn(m, [m EXCEPT !.pc = "build", !.path = NoPath,
                                           !.file = file])
                 /\ ret' = [op |-> "msg.downloaded", groupId |-> m.groupId,
                            videoId |-> m.videoId, file |-> file,
                            left |-> TempFilesLeft(probe, streams)]
    /\ UNCHANGED <<clockVars, qrVars, storeVars, runVars, serviceVars, streamVars,
                   parseCache, parseCacheTTL, inserted, cleanups>>

\* lines 251-351: with the file (or none) in hand and the card rendered (or
\* not), the count is saved and the forward message is sent
MsgBuilt ==
    /\ \E m \in BagToSet(handling), rendered \in BOOLEAN,
          videoSendMode \in {"forward", "separate"}, w \in SaveOutcomes :
         /\ m.pc = "build"
         /\ LET useGroupFile == m.file # NoFile /\ m.file.sizeMB > 100
            IN /\ MsgGoesOn(m, [m EXCEPT !.pc = "send", !.sendMode = "",
                                         !.videoInfo = NoInfo])
               /\ disk' = saveConfig(credential, disk, w)
               /\ ret' = [op |-> "msg.send", groupId |-> m.groupId, videoId |-> m.videoId,
                          sendMode |-> m.sendMode, videoInfo |-> m.videoInfo,
                          file |-> m.file,
                          nodes |-> ForwardNodes(m.videoInfo, rendered, m.file,
                                                 useGroupFile, videoSendMode),
                          after |-> SentAfter(m.file, useGroupFile, videoSendMode)]
    /\ UNCHANGED <<clockVars, qrVars, credential, fsFaults, runVars, serviceVars,
                   streamVars, parseCache, parseCacheTTL, inserted, cleanups>>

\* variant: the key is inserted whether or not the message was delivered
InsertsAlways(success, cacheTTL) == cacheTTL > 0

\* variant: the key is inserted whatever the TTL read
InsertsWhenDelivered(success, cacheTTL) == success

\* lines 352-358: whether the key is inserted
Inserts(success, cacheTTL) == success /\ cacheTTL > 0

\* variant: no timer is set for a file that was uploaded as a group file
CleanupsAfterUnlessGroupFile(timers, file) ==
    IF file = NoFile \/ file.sizeMB > 100 THEN timers
    ELSE timers (+) SetToBag({Cleanup(file.path, CLEANUP_DELAY)})

\* lines 384-390: the timer set for the file, if there is one
CleanupsAfter(timers, file) ==
    IF file = NoFile THEN timers
    ELSE timers (+) SetToBag({Cleanup(file.path,
                                      IF file.sizeMB > 100 THEN GROUP_FILE_CLEANUP_DELAY
                                      ELSE CLEANUP_DELAY)})

\* lines 351-395: sendGroupForwardMsg returns; the key is inserted, the video
\* is sent apart or uploaded, the emoji is set, the cleanup of the file is
\* scheduled, and the call returns
MsgSent ==
    /\ \E m \in BagToSet(handling), success \in BOOLEAN :
         /\ m.pc = "send"
         /\ MsgReturns(m)
         /\ IF Inserts(success, m.cacheTTL)
            THEN /\ parseCache' = addToParseCache(parseCache, m.groupId, m.videoId,
                                                  parseCacheTTL, now)
                 /\ inserted' = [k \in DOMAIN inserted \cup {<<m.groupId, m.videoId>>} |->
                                    IF k = <<m.groupId, m.videoId>>
                                    THEN [at |-> now, ttl |-> InsertTTL(parseCacheTTL)]
                                    ELSE inserted[k]]
            ELSE UNCHANGED <<parseCache, inserted>>
         /\ cleanups' = CleanupsAfter(cleanups, m.file)
         /\ ret' = MsgStep("msg.return", m, m.videoId,
                            IF success THEN "delivered" ELSE "not-delivered")
    /\ UNCHANGED <<clockVars, qrVars, storeVars, runVars, serviceVars, streamVars,
                   parseCacheTTL>>

\* part_004:1114-1123, cleanupTempVideo as the callback of a timer that is due
CleanupFires ==
    /\ \E t \in BagToSet(cleanups) :
         /\ t.remaining = 0
         /\ cleanups' = cleanups (-) SetToBag({t})
         /\ ret' = [op |-> "cleanup", path |-> t.path]
    /\ UNCHANGED <<clockVars, qrVars, storeVars, runVars, serviceVars, streamVars,
                   parseCache, parseCacheTTL, handling, inserted>>

\* time passes until the timer due next is due (the clock is followed for
\* MaxTicks advances, after which only the timers are)
CleanupElapses ==
    /\ \E t \in BagToSet(cleanups) :
         /\ t.remaining > 0
         /\ \A o \in BagToSet(cleanups) :
              o.remaining > 0 => o.remaining >= t.remaining
         /\ cleanups' = Elapsed(cleanups, t.remaining)
         /\ now' = IF ticks < MaxTicks THEN now + t.remaining ELSE now
         /\ ticks' = IF ticks < MaxTicks THEN ticks + 1 ELSE ticks
    /\ ret' = Step("elapse")
    /\ UNCHANGED <<qrVars, storeVars, runVars, serviceVars, streamVars,
                   parseCache, parseCacheTTL, handling, inserted>>

\* part_001:397-404, setConfig with another parseCacheTTL; the file is saved
SetParseCacheTTL ==
    /\ \E ttl \in CacheTTLs \ {parseCacheTTL} : parseCacheTTL' = ttl
    /\ \E w \in SaveOutcomes : disk' = saveConfig(credential, disk, w)
    /\ ret' = Step("config")
    /\ UNCHANGED <<clockVars, qrVars, credential, fsFaults, runVars, serviceVars,
                   streamVars, parseCache, handling, inserted, cleanups>>

\* time passes: a millisecond, or the default TTL
CacheTickSteps == {1, 300 * 1000}

CacheTick ==
    /\ ticks < MaxTicks
    /\ \E d \in CacheTickSteps : /\ now' = now + d
                                 /\ cleanups' = Elapsed(cleanups, d)
    /\ ticks' = ticks + 1
    /\ ret' = Step("tick")
    /\ UNCHANGED <<qrVars, storeVars, runVars, serviceVars, streamVars,
                   parseCache, parseCacheTTL, handling, inserted>>

----------------------------------------------------------------------------
(* startAutoRefreshService: the interval timer of the cookie refresh *)

\* variant: the refresh is scheduled hourly
RefreshIntervalHourly == 60 * 60 * 1000

\* bilibili-login-service.ts:408, the delay given to setInterval
REFRESH_INTERVAL == 24 * 60 * 60 * 1000

\* refreshTimer = null
NoTimer == [none |-> TRUE]
\* an interval timer: its delay, and the time left until its callback is due
Timer(delay, remaining) == [delay |-> delay, remaining |-> remaining]

\* the state of the rest of the plugin after construction
InitPlugin ==
    /\ refreshTimer = NoTimer
    /\ armed = 0
    /\ dashInfo = NoDash
    /\ videoQuality = "auto"
    /\ messageText = <<>>
    /\ plaintext = ""
    /\ probe = NoProbe
    /\ InitHandler

\* variant: setInterval is called without clearing the timer armed before
ArmedAfterStartWithoutClear(timer, n) == n + 1

\* lines 392-394 and 404: clearInterval on the timer the module variable
\* refers to, if any, and setInterval; the timers armed afterwards
ArmedAfterStart(timer, n) == (IF timer # NoTimer THEN n - 1 ELSE n) + 1

\* startAutoRefreshService: a timer already armed is cleared, one run is
\* begun at once, and the interval timer is armed
startAutoRefreshService ==
    /\ performCookieRefresh
    /\ refreshTimer' = Timer(REFRESH_INTERVAL, REFRESH_INTERVAL)
    /\ armed' = ArmedAfterStart(refreshTimer, armed)
    /\ UNCHANGED <<clockVars, qrVars, storeVars, uinfo, streamVars, handlerVars>>

\* the delay of the armed timer passes (the clock is followed for MaxTicks
\* advances, after which only the timer is)
IntervalElapses ==
    /\ refreshTimer # NoTimer
    /\ refreshTimer.remaining > 0
    /\ now' = IF ticks < MaxTicks THEN now + refreshTimer.remaining ELSE now
    /\ ticks' = IF ticks < MaxTicks THEN ticks + 1 ELSE ticks
    /\ refreshTimer' = [refreshTimer EXCEPT !.remaining = 0]
    /\ ret' = Step("interval")
    /\ UNCHANGED <<qrVars, storeVars, runVars, armed, streamVars, handlerVars>>

\* lines 404-408: the callback of the interval timer, which stays armed
TimerFires ==
    /\ refreshTimer # NoTimer
    /\ refreshTimer.remaining = 0
    /\ performCookieRefresh
    /\ refreshTimer' = [refreshTimer EXCEPT !.remaining = refreshTimer.delay]
    /\ UNCHANGED <<clockVars, qrVars, storeVars, uinfo, armed, streamVars, handlerVars>>

\* stopAutoRefreshService, as plugin_cleanup calls it: the timer the module
\* variable refers to is cleared and the variable set to null; runs under
\* way are left alone
stopAutoRefreshService ==
    /\ armed' = IF refreshTimer # NoTimer THEN armed - 1 ELSE armed
    /\ refreshTimer' = NoTimer
    /\ ret' = Step("stop")
    /\ UNCHANGED <<clockVars, qrVars, storeVars, runVars, streamVars, handlerVars>>

----------------------------------------------------------------------------
(* The clock *)

TickSteps == {1, QRCODE_TIMEOUT}

Tick ==
    /\ ticks < MaxTicks
    /\ \E d \in TickSteps : now' = now + d
    /\ ticks' = ticks + 1
    /\ ret' = Step("tick")
    /\ UNCHANGED <<qrVars, storeVars, runVars, pluginVars>>

----------------------------------------------------------------------------
(* The QR login service *)

Init ==
    /\ now = 0
    /\ ticks = 0
    /\ currentQrSession = NoSession
    /\ polls = EmptyBag
    /\ gens = 0
    /\ hist = NoHist
    /\ credential = NoCred
    /\ disk = NoCred
    /\ fsFaults = FALSE
    /\ refresh = EmptyBag
    /\ uinfo = NoInfos
    /\ InitPlugin
    /\ ret = Step("init")

Next ==
    \/ Tick
    \/ GenerateCall
    \/ GenerateReply
    \/ PollCall
    \/ PollReplyStep
    \/ PollFinish

Spec == Init /\ [][Next]_vars

----------------------------------------------------------------------------
(* The credential lifecycle: import through the configuration, refresh,   *)
(* logout, user info, configuration changes, save and load, at a fixed time *)

NextCred ==
    \/ Logout
    \/ GetUserInfoCall
    \/ GetUserInfoReply
    \/ SetConfig
    \/ ReplaceConfig
    \/ SaveConfig
    \/ LoadConfig
    \/ RefreshCall
    \/ RefreshCheckReply
    \/ RefreshCsrfReply
    \/ RefreshReplyStep
    \/ RefreshConfirmReply

SpecCred == Init /\ [][NextCred]_vars

----------------------------------------------------------------------------
(* isLoggedIn and getAuthHeaders over every credential value *)

CredentialValues ==
    {NoCred} \cup
    {Cred(s, j, u, r, 0) : s \in {Undefined, "", "s,1"}, j \in {Undefined, "", "j1"},
                           u \in {Undefined, "", "u1"}, r \in {Undefined, "r1"}}

InitAuth ==
    /\ now = 0
    /\ ticks = 0
    /\ currentQrSession = NoSession
    /\ polls = EmptyBag
    /\ gens = 0
    /\ hist = NoHist
    /\ credential \in CredentialValues
    /\ disk = NoCred
    /\ fsFaults = FALSE
    /\ refresh = EmptyBag
    /\ uinfo = NoInfos
    /\ InitPlugin
    /\ ret = Step("init")

IsLoggedInQuery ==
    /\ ret' = [op |-> "isLoggedIn", value |-> isLoggedIn(credential)]
    /\ UNCHANGED <<clockVars, qrVars, storeVars, runVars, pluginVars>>

GetAuthHeadersQuery ==
    /\ ret' = [op |-> "getAuthHeaders", Cookie |-> getAuthHeaders(credential)]
    /\ UNCHANGED <<clockVars, qrVars, storeVars, runVars, pluginVars>>

NextAuth == IsLoggedInQuery \/ GetAuthHeadersQuery

SpecAuth == InitAuth /\ [][NextAuth]_vars

----------------------------------------------------------------------------
(* The auto refresh service: started at plugin_init over the credential the *)
(* config load produced, every request eventually answered                   *)

ServiceCredentials ==
    {NoCred, Cred("s3", "j3", "u3", "r3", NoTime),
     Cred("s3", "j3", "u3", Undefined, NoTime)}

InitService ==
    /\ now = 0
    /\ ticks = 0
    /\ currentQrSession = NoSession
    /\ polls = EmptyBag
    /\ gens = 0
    /\ hist = NoHist
    /\ credential \in ServiceCredentials
    /\ disk = NoCred
    /\ fsFaults = FALSE
    /\ refresh = EmptyBag
    /\ uinfo = NoInfos
    /\ InitPlugin
    /\ ret = Step("init")

NextService ==
    \/ startAutoRefreshService
    \/ IntervalElapses
    \/ TimerFires
    \/ RefreshCheckReply
    \/ RefreshCsrfReply
    \/ RefreshReplyStep
    \/ RefreshConfirmReply

\* a timer that is due fires, and a request under way is answered
SpecService ==
    /\ InitService
    /\ [][NextService]_vars
    /\ WF_vars(IntervalElapses)
    /\ WF_vars(TimerFires)
    /\ WF_vars(RefreshCheckReply)
    /\ WF_vars(RefreshCsrfReply)
    /\ WF_vars(RefreshReplyStep)
    /\ WF_vars(RefreshConfirmReply)

\* the service is started and stopped any number of times, as the plugin is
\* initialised and cleaned up, while its timer and its runs go on
NextTimer ==
    \/ startAutoRefreshService
    \/ stopAutoRefreshService
    \/ IntervalElapses
    \/ TimerFires
    \/ RefreshCheckReply
    \/ RefreshCsrfReply
    \/ RefreshReplyStep
    \/ RefreshConfirmReply

SpecTimer == InitService /\ [][NextTimer]_vars

\* the lists of at most n elements of a set
ListsUpTo(set, n) == UNION {[1 .. k -> set] : k \in 0 .. n}

\* video candidates: three tiers, the highest in two encodings
VideoCandidates ==
    {Stream(16, 100, "v16"), Stream(32, 300, "v32"),
     Stream(80, 2000, "v80avc"), Stream(80, 1500, "v80hev")}
\* regular audio candidates, two of them of one bit-rate
AudioCandidates ==
    {Stream(30216, 64, "a64"), Stream(30232, 192, "a192x"), Stream(30280, 192, "a192y")}
\* spatial audio candidates
DolbyCandidates == {Stream(30250, 256, "d256"), Stream(30250, 448, "d448")}
\* lossless audio
FlacCandidates == {Stream(30251, 900, "flac")}
\* values of config.videoQuality; the last is no key of VIDEO_QUALITY_MAP
Qualities == {"auto", "1080p", "720p", "360p", "original"}

InitStreams ==
    /\ now = 0
    /\ ticks = 0
    /\ currentQrSession = NoSession
    /\ polls = EmptyBag
    /\ gens = 0
    /\ hist = NoHist
    /\ credential = NoCred
    /\ disk = NoCred
    /\ fsFaults = FALSE
    /\ refresh = EmptyBag
    /\ uinfo = NoInfos
    /\ refreshTimer = NoTimer
    /\ armed = 0
    /\ InitHandler
    /\ dashInfo \in {Dash(video, audio, dolby, flac) :
                        video \in ListsUpTo(VideoCandidates, MaxStreams),
                        audio \in ListsUpTo(AudioCandidates, MaxStreams),
                        dolby \in ListsUpTo(DolbyCandidates, MaxStreams),
                        flac \in FlacCandidates \cup {NoStream}}
    /\ videoQuality \in Qualities
    /\ messageText = <<>>
    /\ plaintext = ""
    /\ probe = NoProbe
    /\ ret = Step("init")

NextStreams == SelectStreams

SpecStreams == InitStreams /\ [][NextStreams]_vars

\* the host is about to make its call: none has been made
Idle ==
    /\ ret = Step("init")
    /\ polls = EmptyBag
    /\ gens = 0
    /\ refresh = EmptyBag
    /\ handling = EmptyBag

\* the downloads the host runs meet: files within the limit, and each step
\* failing or not
HostProbes ==
    {p \in Probes : /\ p.maxSizeMB = 200
                    /\ ~p.videoLeft /\ ~p.audioLeft
                    /\ p.dash \in {NoDash, Dash(<<Stream(80, 2000, "v80avc")>>,
                                               <<Stream(30280, 192, "a192y")>>,
                                               <<>>, NoStream)}}

\* the states a call is made in: with or without a credential and a refresh
\* token, with or without a QR session, fresh or timed out, with a file
\* system and a cipher that may fail, and dedup off
InitHost ==
    /\ now \in {0, QRCODE_TIMEOUT + 1}
    /\ ticks = 0
    /\ currentQrSession \in
          {NoSession, [qrcode_key |-> "k1", url |-> UrlOf("k1"), createTime |-> 0]}
    /\ polls = EmptyBag
    /\ gens = 0
    /\ hist = IF currentQrSession = NoSession THEN NoHist
              ELSE [key |-> "k1", marks |-> {}]
    /\ credential \in ServiceCredentials
    /\ disk = NoCred
    /\ fsFaults = TRUE
    /\ refresh = EmptyBag
    /\ uinfo = NoInfos
    /\ refreshTimer = NoTimer
    /\ armed = 0
    /\ parseCache = EmptyCache
    /\ parseCacheTTL = 0
    /\ handling = EmptyBag
    /\ inserted = EmptyCache
    /\ cleanups = EmptyBag
    /\ dashInfo = NoDash
    /\ videoQuality = "auto"
    /\ messageText = <<>>
    /\ plaintext = ""
    /\ probe \in HostProbes
    /\ ret = Step("init")

\* the host makes one call, and the call runs to its return
NextHost ==
    \/ Idle /\ GenerateCall
    \/ GenerateReply
    \/ Idle /\ PollCall
    \/ PollReplyStep
    \/ PollFinish
    \/ Idle /\ RefreshCall
    \/ RefreshCheckReply
    \/ RefreshCsrfReply
    \/ RefreshReplyStep
    \/ RefreshConfirmReply
    \/ Idle /\ Logout
    \/ Idle /\ HandleMessage
    \/ MsgExtracted
    \/ MsgInfo
    \/ MsgManifest
    \/ MsgDownloaded
    \/ MsgBuilt
    \/ MsgSent
    \/ CleanupElapses
    \/ CleanupFires

\* each handler the host calls, against endpoints, a file system and a
\* muxing tool that may fail
SpecHost == InitHost /\ [][NextHost]_vars

\* the strings handed to encryptString: empty, two cookie values, and one
\* that is not well-formed UTF-16
Plaintexts == {"", "s,1", "j1", LoneSurrogate}
\* the credentials saved: usable or, with an empty sessdata, not; with no
\* refresh token, an empty one or one; with no login_time or one
StoreCredentials ==
    {NoCred} \cup
    {Cred(s, "j1", "u1", r, t) : s \in {"", "s,1"}, r \in {Undefined, "", "r1"},
                                 t \in {NoTime, 0, 5}}

InitStore ==
    /\ now = 0
    /\ ticks = 0
    /\ currentQrSession = NoSession
    /\ polls = EmptyBag
    /\ gens = 0
    /\ hist = NoHist
    /\ credential \in StoreCredentials
    /\ disk = NoCred
    /\ fsFaults = TRUE
    /\ refresh = EmptyBag
    /\ uinfo = NoInfos
    /\ refreshTimer = NoTimer
    /\ armed = 0
    /\ InitHandler
    /\ dashInfo = NoDash
    /\ videoQuality = "auto"
    /\ messageText = <<>>
    /\ plaintext \in Plaintexts
    /\ probe = NoProbe
    /\ ret = Step("init")

\* encryptString on the string, and decryptString on what it returns
EncryptDecrypt ==
    /\ \E encOk \in BOOLEAN :
         ret' = [op |-> "encryptString", encOk |-> encOk,
                 cell |-> encryptString(plaintext, encOk),
                 value |-> decryptString(encryptString(plaintext, encOk))]
    /\ UNCHANGED <<clockVars, qrVars, storeVars, runVars, pluginVars>>

\* decryptString on the string as a stored value without the prefix
DecryptPlain ==
    /\ ret' = [op |-> "decryptString", value |-> decryptString(PlainCell(plaintext))]
    /\ UNCHANGED <<clockVars, qrVars, storeVars, runVars, pluginVars>>

NextStore == EncryptDecrypt \/ DecryptPlain \/ SaveConfig \/ LoadConfig

\* encryption of strings, and the credential saved and loaded, with a file
\* system and a cipher that may fail
SpecStore == InitStore /\ [][NextStore]_vars

\* values of config.videoQuality: left out, and those of the type VideoQuality
RequestQualities == {Undefined, "auto", "4k", "1080p60", "1080p", "720p", "480p"}

InitDash ==
    /\ now = 0
    /\ ticks = 0
    /\ currentQrSession = NoSession
    /\ polls = EmptyBag
    /\ gens = 0
    /\ hist = NoHist
    /\ credential \in CredentialValues
    /\ disk = NoCred
    /\ fsFaults = FALSE
    /\ refresh = EmptyBag
    /\ uinfo = NoInfos
    /\ refreshTimer = NoTimer
    /\ armed = 0
    /\ InitHandler
    /\ dashInfo = NoDash
    /\ videoQuality \in RequestQualities
    /\ messageText = <<>>
    /\ plaintext = ""
    /\ probe = NoProbe
    /\ ret = Step("init")

\* fetchVideoDashInfo builds its request: the parameters (lines 661-671) and
\* the Cookie header of getAuthHeaders() (lines 676-679)
FetchVideoDashInfoRequest ==
    /\ ret' = [op |-> "fetchVideoDashInfo",
               params |-> DashRequest(videoQuality, credential),
               Cookie |-> getAuthHeaders(credential)]
    /\ UNCHANGED <<clockVars, qrVars, storeVars, runVars, pluginVars>>

NextDash == FetchVideoDashInfoRequest

\* the request of fetchVideoDashInfo, for every credential and quality
SpecDash == InitDash /\ [][NextDash]_vars

\* the tokens of the texts: a URL with a BV id, a URL with an av id, a BV id
\* and an av id outside a URL, a short link, and a word
Tokens ==
    {UrlToken(BvId("BV1")), UrlToken(AvId(7)), BareToken(BvId("BV2")),
     BareToken(AvId(9)), ShortToken, WordToken}
Texts == ListsUpTo(Tokens, MaxTokens)
\* what a fetch of a short link ends at: it threw, or a video URL with a BV
\* id or an av id, or a page that is no video
FetchOutcomes ==
    {Threw, <<UrlToken(BvId("BV3"))>>, <<UrlToken(AvId(5))>>, <<WordToken>>}

InitIds ==
    /\ now = 0
    /\ ticks = 0
    /\ currentQrSession = NoSession
    /\ polls = EmptyBag
    /\ gens = 0
    /\ hist = NoHist
    /\ credential = NoCred
    /\ disk = NoCred
    /\ fsFaults = FALSE
    /\ refresh = EmptyBag
    /\ uinfo = NoInfos
    /\ refreshTimer = NoTimer
    /\ armed = 0
    /\ InitHandler
    /\ dashInfo = NoDash
    /\ videoQuality = "auto"
    /\ messageText \in Texts
    /\ plaintext = ""
    /\ probe = NoProbe
    /\ ret = Step("init")

\* a call of extractVideoId on the text; a fetch that is not issued has the
\* first outcome
ExtractVideoId ==
    /\ \E head \in FetchOutcomes, get \in FetchOutcomes :
         /\ ~ResolvesShortLink(messageText) => head = Threw
         /\ (~ResolvesShortLink(messageText) \/ head # Threw) => get = Threw
         /\ ret' = [op |-> "extractVideoId",
                    videoId |-> extractVideoId(messageText, head, get),
                    requests |-> IF ResolvesShortLink(messageText)
                                 THEN ShortUrlRequests(head) ELSE <<>>,
                    head |-> head, get |-> get]
    /\ UNCHANGED <<clockVars, qrVars, storeVars, runVars, pluginVars>>

NextIds == ExtractVideoId

\* extractVideoId on every text
SpecIds == InitIds /\ [][NextIds]_vars

\* every field but those of the download and of the message handler
InitRest ==
    /\ now = 0
    /\ ticks = 0
    /\ currentQrSession = NoSession
    /\ polls = EmptyBag
    /\ gens = 0
    /\ hist = NoHist
    /\ credential = NoCred
    /\ disk = NoCred
    /\ fsFaults = FALSE
    /\ refresh = EmptyBag
    /\ uinfo = NoInfos
    /\ refreshTimer = NoTimer
    /\ armed = 0
    /\ dashInfo = NoDash
    /\ videoQuality = "auto"
    /\ messageText = <<>>
    /\ plaintext = ""
    /\ handling = EmptyBag
    /\ parseCache = EmptyCache
    /\ inserted = EmptyCache
    /\ cleanups = EmptyBag
    /\ ret = Step("init")

\* the downloads of the dedup runs: one that yields a file, one that does not
CacheProbes ==
    {Probe(dash, TRUE, FALSE, 50, TRUE, FALSE, "ok", 50, 100) :
        dash \in {NoDash, Dash(<<Stream(80, 2000, "v80avc")>>,
                               <<Stream(30280, 192, "a192y")>>, <<>>, NoStream)}}

InitMsg ==
    /\ InitRest
    /\ parseCacheTTL = 300
    /\ probe \in CacheProbes

NextMsg ==
    \/ CacheTick
    \/ SetParseCacheTTL
    \/ HandleMessage
    \/ MsgExtracted
    \/ MsgInfo
    \/ MsgManifest
    \/ MsgDownloaded
    \/ MsgBuilt
    \/ MsgSent
    \/ CleanupFires

\* the message handler with the dedup cache, as time passes
SpecMsg == InitMsg /\ [][NextMsg]_vars

\* with dedup off, every outcome of the download
InitVideo ==
    /\ InitRest
    /\ parseCacheTTL = 0
    /\ probe \in Probes

NextVideo ==
    \/ HandleMessage
    \/ MsgExtracted
    \/ MsgInfo
    \/ MsgManifest
    \/ MsgDownloaded
    \/ MsgBuilt
    \/ MsgSent
    \/ CleanupElapses
    \/ CleanupFires

SpecVideo == InitVideo /\ [][NextVideo]_vars

\* a stored credential with a refresh token, and a QR session to poll
InitLogout ==
    /\ now = 0
    /\ ticks = 0
    /\ currentQrSession = [qrcode_key |-> "k1", url |-> UrlOf("k1"), createTime |-> 0]
    /\ polls = EmptyBag
    /\ gens = 0
    /\ hist = [key |-> "k1", marks |-> {}]
    /\ credential = Cred("s3", "j3", "u3", "r3", NoTime)
    /\ disk = NoCred
    /\ fsFaults = FALSE
    /\ refresh = EmptyBag
    /\ uinfo = NoInfos
    /\ InitPlugin
    /\ ret = Step("init")

NextLogout ==
    \/ RefreshCall
    \/ RefreshCheckReply
    \/ RefreshCsrfReply
    \/ RefreshReplyStep
    \/ RefreshConfirmReply
    \/ Logout
    \/ PollCall
    \/ PollReplyStep
    \/ PollFinish

\* a refresh run with a logout or a QR login beside it
SpecLogout == InitLogout /\ [][NextLogout]_vars

\* a field encrypted under the key of another machine, or changed on disk so
\* that its authentication tag no longer matches
UndecryptableCell(s) == [enc |-> TRUE, key |-> "another-machine", text |-> s]
\* the files the plugin starts with: none, one it wrote, one written on
\* another machine, one with a field changed, and one in clear text with an
\* empty field
ConfigFiles ==
    {NoCred,
     EncryptedCredential(Cred("s3", "j3", "u3", "r3", 0), TRUE),
     [sessdata |-> UndecryptableCell("s3"), bili_jct |-> UndecryptableCell("j3"),
      dedeuserid |-> UndecryptableCell("u3"), refresh_token |-> UndecryptableCell("r3"),
      login_time |-> 0],
     [EncryptedCredential(Cred("s3", "j3", "u3", "r3", 0), TRUE)
        EXCEPT !.sessdata = UndecryptableCell("s3")],
     [sessdata |-> PlainCell("s3"), bili_jct |-> PlainCell(""),
      dedeuserid |-> PlainCell("u3"), refresh_token |-> NoCell, login_time |-> NoTime]}

\* the plugin before loadConfig, with a file and a QR session to poll
InitLifecycle ==
    /\ now = 0
    /\ ticks = 0
    /\ currentQrSession = [qrcode_key |-> "k1", url |-> UrlOf("k1"), createTime |-> 0]
    /\ polls = EmptyBag
    /\ gens = 0
    /\ hist = [key |-> "k1", marks |-> {}]
    /\ credential = DefaultCredential
    /\ disk \in ConfigFiles
    /\ fsFaults = FALSE
    /\ refresh = EmptyBag
    /\ uinfo = NoInfos
    /\ InitPlugin
    /\ ret = Step("init")

NextLifecycle ==
    \/ LoadConfig
    \/ SaveConfig
    \/ Logout
    \/ PollCall
    \/ PollReplyStep
    \/ PollFinish
    \/ RefreshCall
    \/ RefreshCheckReply
    \/ RefreshCsrfReply
    \/ RefreshReplyStep
    \/ RefreshConfirmReply

\* config load and save, QR login, cookie refresh and logout, in any order
SpecLifecycle == InitLifecycle /\ [][NextLifecycle]_vars

NextForeign ==
    \/ Tick
    \/ PollCall
    \/ PollReplyStep
    \/ PollFinish

\* polls of the session k1 and of another key while k1 is the session: no
\* session is generated, so a key polled that is not k1 was given explicitly
SpecForeign == InitLogout /\ [][NextForeign]_vars

\* the i-th video of a full table
Filler(i) == "BV" \o ToString(i)
\* a table of n entries of group "1", read at the time t: the first `past`
\* were inserted with a TTL that has run out, the next `due` expire at t, and
\* the others expire after t
FilledCache(n, past, due, t) ==
    [key \in {CacheKey("1", Filler(i)) : i \in 1..n} |->
        LET i == CHOOSE i \in 1..n : key = CacheKey("1", Filler(i))
        IN IF i <= past THEN t - 1000
           ELSE IF i <= past + due THEN t
           ELSE t + 1000]

\* tables one or two entries short of MaxEntries, 300 s after the start
InitGc ==
    /\ now = 300 * 1000
    /\ ticks = 0
    /\ currentQrSession = NoSession
    /\ polls = EmptyBag
    /\ gens = 0
    /\ hist = NoHist
    /\ credential = NoCred
    /\ disk = NoCred
    /\ fsFaults = FALSE
    /\ refresh = EmptyBag
    /\ uinfo = NoInfos
    /\ refreshTimer = NoTimer
    /\ armed = 0
    /\ dashInfo = NoDash
    /\ videoQuality = "auto"
    /\ messageText = <<>>
    /\ plaintext = ""
    /\ probe = NoProbe
    /\ handling = EmptyBag
    /\ \E n \in {MaxEntries - 2, MaxEntries - 1}, past \in 0..MaxEntries, due \in {0, 1} :
          /\ past + due <= n
          /\ parseCache = FilledCache(n, past, due, now)
    /\ parseCacheTTL \in CacheTTLs
    /\ inserted = EmptyCache
    /\ cleanups = EmptyBag
    /\ ret = Step("init")

\* part_001:470-480, a call of addToParseCache: for a video the table has
\* not, or has as its first or its last entry
AddToParseCache ==
    /\ ret = Step("init")
    /\ \E bvid \in {Filler(0), Filler(1), Filler(MaxEntries - 2)} :
         /\ parseCache' = addToParseCache(parseCache, "1", bvid, parseCacheTTL, now)
         /\ ret' = [op |-> "cache.add", key |-> CacheKey("1", bvid),
                    expiry |-> now + InsertTTL(parseCacheTTL) * 1000]
    /\ UNCHANGED <<clockVars, qrVars, storeVars, runVars, serviceVars, streamVars,
                   parseCacheTTL, handling, inserted, cleanups>>

NextGc == AddToParseCache

\* one insertion into a table that is nearly full
SpecGc == InitGc /\ [][NextGc]_vars

NextCleanup ==
    \/ HandleMessage
    \/ MsgExtracted
    \/ MsgInfo
    \/ MsgManifest
    \/ MsgDownloaded
    \/ MsgBuilt
    \/ MsgSent
    \/ CleanupElapses
    \/ CleanupFires

\* every awaited call of a handler settles, time passes, and a timer that is
\* due runs its callback
CleanupFairness ==
    /\ WF_vars(MsgExtracted)
    /\ WF_vars(MsgInfo)
    /\ WF_vars(MsgManifest)
    /\ WF_vars(MsgDownloaded)
    /\ WF_vars(MsgBuilt)
    /\ WF_vars(MsgSent)
    /\ WF_vars(CleanupElapses)
    /\ WF_vars(CleanupFires)

\* the message handler with every outcome of the download, and the timers
\* it sets
SpecCleanup == InitVideo /\ [][NextCleanup]_vars /\ CleanupFairness

\* the download the overlapping calls meet: one that yields a file
OverlapProbes ==
    {Probe(Dash(<<Stream(80, 2000, "v80avc")>>, <<Stream(30280, 192, "a192y")>>,
                <<>>, NoStream),
           TRUE, FALSE, 50, TRUE, FALSE, "ok", 50, 100)}

InitOverlap ==
    /\ InitRest
    /\ parseCacheTTL = 300
    /\ probe \in OverlapProbes

\* no call has delivered yet
NoneDelivered == inserted = EmptyCache /\ cleanups = EmptyBag

\* messages arrive until one has been delivered
NextOverlap ==
    \/ CacheTick
    \/ NoneDelivered /\ HandleMessageOverlapping
    \/ MsgExtracted
    \/ MsgInfo
    \/ MsgManifest
    \/ MsgDownloaded
    \/ MsgBuilt
    \/ MsgSent
    \/ CleanupFires

\* calls of handleMessage that overlap in time, with the dedup cache on
SpecOverlap == InitOverlap /\ [][NextOverlap]_vars

----------------------------------------------------------------------------
(* Properties of the QR login service *)

\* the step is the first part of a pollQrCodeStatus call (up to the fetch, or
\* to a return made before any fetch)
PollInvoked ==
    \/ ret'.op = "poll.fetch"
    \/ ret'.op = "poll.return" /\ ~ret'.remote

\* the step returns from a pollQrCodeStatus call
PollReturned == ret'.op = "poll.return"

\* C1: a poll issued more than 180 s after the session was created returns
\* Expired, clears the session and calls no remote endpoint.
C1_TimeoutShortCircuits ==
    [][(/\ PollInvoked
        /\ currentQrSession # NoSession
        /\ now - currentQrSession.createTime > 180000)
       => /\ ret'.op = "poll.return"
          /\ ret'.status = EXPIRED
          /\ ~ret'.remote
          /\ currentQrSession' = NoSession
          /\ polls' = polls]_vars

\* a poll returned Expired for the timeout, 180.001 s or more after creation
C1_Witness ==
    /\ ret.op = "poll.return"
    /\ ret.message = "timed out"
    /\ ret.status = EXPIRED
    /\ ~ret.remote
    /\ currentQrSession = NoSession
    /\ now > 180000

\* C2 as stated: after a generateQrCode call returns, the session that
\* was active before is no longer the active one.
C2_PriorSessionAlwaysDiscarded ==
    [][(ret'.op = "generate.return" /\ currentQrSession # NoSession)
       => currentQrSession' # currentQrSession]_vars

\* C2, amended: a generateQrCode call that returns a QR code makes the
\* session of that code, created now, the only active one; a call that
\* returns null leaves the session as it was.
C2_SessionReplacedOnSuccessOnly ==
    [][ret'.op = "generate.return"
       => IF ret'.null
          THEN currentQrSession' = currentQrSession
          ELSE /\ currentQrSession' # currentQrSession
               /\ currentQrSession'.qrcode_key = ret'.qrcode_key
               /\ currentQrSession'.url = ret'.url
               /\ currentQrSession'.createTime = now]_vars

\* a generateQrCode call failed while a session was active, and the session
\* is still the active one
C2_Witness ==
    /\ ret.op = "generate.return"
    /\ ret.null
    /\ currentQrSession # NoSession
    /\ hist.key = currentQrSession.qrcode_key
    /\ now - currentQrSession.createTime <= 180000

\* C3 as stated: after a poll that returns Succeeded or Expired no session
\* is active.
C3_NoSessionAfterFinalStatus ==
    [][(PollReturned /\ ret'.status \in {SUCCESS, EXPIRED})
       => currentQrSession' = NoSession]_vars

\* C3, amended: no session is active after a poll that returns Succeeded, or
\* Expired for the local timeout or for remote code 86038; a poll that
\* returns Expired for another reason leaves the session as it was.
C3_SessionClearedBySuccessTimeoutOrRemoteExpiry ==
    [][PollReturned
       => IF \/ ret'.status = SUCCESS
             \/ ret'.status = EXPIRED /\ ret'.message \in {"timed out", "expired"}
          THEN currentQrSession' = NoSession
          ELSE currentQrSession' = currentQrSession]_vars

\* the remote reported 86038 for the active session, which is gone
C3_Witness ==
    /\ ret.op = "poll.return"
    /\ ret.remote
    /\ ret.reply.dcode = EXPIRED
    /\ ret.status = EXPIRED
    /\ ret.key = hist.key
    /\ currentQrSession = NoSession

\* the redirect URL yields no credential: it is missing, has no query
\* string, or SESSDATA, bili_jct or DedeUserID is missing or empty in it
RECURSIVE HasValue(_, _)
HasValue(query, name) ==
    /\ query # <<>>
    /\ \/ Head(query)[1] = name /\ Head(query)[2] # ""
       \/ Head(query)[1] # name /\ HasValue(Tail(query), name)

UrlUnparseable(url) ==
    \/ url.path = ""
    \/ ~url.hasQ
    \/ \E name \in {"SESSDATA", "bili_jct", "DedeUserID"} : ~HasValue(url.query, name)

\* SESSDATA, once taken from the query, is no valid percent-encoding
SessdataUndecodable(url) ==
    \E i \in 1 .. Len(url.query) : url.query[i] = <<"SESSDATA", "%25">>

\* the step returns from a poll whose remote reply was code 0 with an
\* unparseable redirect URL
UnparseableSuccessReturned ==
    /\ PollReturned
    /\ ret'.remote
    /\ RemoteAnswered(ret'.reply)
    /\ ret'.reply.dcode = SUCCESS
    /\ UrlUnparseable(ret'.reply.url)

\* C4 as stated: when the remote reports code 0 and the credential cannot
\* be parsed, the result is an error distinct from Expired and the stored
\* credential is unchanged.
C4_ParseFailureIsNotExpired ==
    [][UnparseableSuccessReturned
       => ret'.status # EXPIRED /\ credential' = credential]_vars

\* C4, amended: when the remote reports code 0 and the credential cannot be
\* parsed, the poll returns status Expired with the message of a parse
\* failure and no credential; the stored credential, the file and the
\* session are unchanged.
C4_ParseFailureIsExpiredWithOwnMessage ==
    [][UnparseableSuccessReturned
       => /\ ret'.status = EXPIRED
          /\ ret'.message = "credential parse failed"
          /\ ret'.credential = NoCred
          /\ credential' = credential
          /\ disk' = disk
          /\ currentQrSession' = currentQrSession]_vars

\* a parse failure was returned for a URL whose SESSDATA is empty, after an
\* earlier login had stored a credential, the session still active
C4_Witness ==
    /\ ret.op = "poll.return"
    /\ ret.remote
    /\ ret.reply.dcode = SUCCESS
    /\ ret.reply.url = Url(CrossDomain, TRUE, Query("", "j1", "u1"))
    /\ ret.message = "credential parse failed"
    /\ credential # NoCred
    /\ currentQrSession # NoSession

\* a step of a pollQrCodeStatus call
PollStepped == ret'.op \in {"poll.fetch", "poll.save", "poll.return"}

\* C5: the status a poll returns is the one the remote code stands for
\* (86101 Waiting, 86090 Scanned, 86038 Expired, 0 Succeeded when the
\* credential parses), and a poll writes the credential store only when it
\* is about to return Succeeded, with exactly the credential parsed from the
\* redirect URL, which is the credential it returns.
C5_StatusByCodeAndStoreOnSuccessOnly ==
    [][/\ (PollReturned /\ ret'.remote /\ RemoteAnswered(ret'.reply))
          => /\ ret'.reply.dcode = 86101 => ret'.status = WAITING
             /\ ret'.reply.dcode = 86090 => ret'.status = SCANNED
             /\ ret'.reply.dcode = 86038 => ret'.status = EXPIRED
             /\ (ret'.reply.dcode = 0 /\ ~UrlUnparseable(ret'.reply.url)
                    /\ ~SessdataUndecodable(ret'.reply.url))
                  => ret'.status = SUCCESS
             /\ ret'.status = SUCCESS => ret'.reply.dcode = 0
       /\ (PollStepped /\ ret'.op # "poll.save")
          => credential' = credential /\ disk' = disk
       /\ ret'.op = "poll.save"
          => /\ RemoteAnswered(ret'.reply)
             /\ ret'.reply.dcode = 0
             /\ ret'.reply.url = GoodUrl
             /\ credential' = [sessdata |-> "s,1", bili_jct |-> "j1",
                               dedeuserid |-> "u1", refresh_token |-> "r1",
                               login_time |-> now]
             /\ \E call \in BagToSet(polls') : call.pc = "saved"
                                                /\ call.credential = credential'
       /\ (PollReturned /\ ret'.status = SUCCESS)
          => \E call \in BagToSet(polls) : call.pc = "saved"
                                             /\ ret'.credential = call.credential
       /\ (PollReturned /\ ret'.status # SUCCESS)
          => ret'.credential = NoCred]_vars

\* a poll returned Succeeded and the store holds the credential it returned
C5_Witness ==
    /\ ret.op = "poll.return"
    /\ ret.status = SUCCESS
    /\ ret.reply.dcode = 0
    /\ credential = ret.credential
    /\ credential.sessdata = "s,1"
    /\ "scanned" \in hist.marks

\* C6 as stated: for the session created last, Succeeded is reported only
\* after Scanned was, and once Succeeded or Expired has been reported no
\* later poll of it reports Waiting or Scanned.
C6_StatusSequenceFollowsLifecycle ==
    [][(PollReturned /\ ret'.key # NoKey /\ ret'.key = hist.key)
       => /\ ret'.status = SUCCESS => "scanned" \in hist.marks
          /\ ret'.status \in {WAITING, SCANNED} => "final" \notin hist.marks]_vars

\* C6, amended: a poll reports the status of its own remote reply,
\* whatever was reported before; only while no session is active does a
\* poll without a key argument report Expired, calling no remote endpoint.
C6_KeylessPollWithoutSessionExpires ==
    [][(PollInvoked /\ ret'.arg = NoKey /\ currentQrSession = NoSession)
       => /\ ret'.op = "poll.return"
          /\ ret'.status = EXPIRED
          /\ ~ret'.remote
          /\ ret'.key = NoKey
          /\ currentQrSession' = NoSession
          /\ polls' = polls]_vars

\* after the session ended, a poll without a key was answered locally
C6_Witness ==
    /\ ret.op = "poll.return"
    /\ ~ret.remote
    /\ ret.arg = NoKey
    /\ ret.message = "no valid session"
    /\ "final" \in hist.marks
    /\ currentQrSession = NoSession

----------------------------------------------------------------------------
(* Properties of the credential store and of the cookie refresh *)

\* the step removes a stored credential
CredentialRemoved == credential # NoCred /\ credential' = NoCred

FileWithoutUsableCredential ==
    \/ disk = NoCred
    \/ Falsy(disk.sessdata.text)
    \/ Falsy(disk.bili_jct.text)
    \/ Falsy(disk.dedeuserid.text)

Usable(cred) ==
    /\ cred # NoCred
    /\ cred.sessdata \notin {"", Undefined}
    /\ cred.bili_jct \notin {"", Undefined}
    /\ cred.dedeuserid \notin {"", Undefined}

\* C8: isLoggedIn holds exactly for the usable credentials, and the headers
\* of getAuthHeaders carry a Cookie exactly for the usable credentials,
\* built from the three primary fields; the two agree for every credential
\* value, the absent one included.
C8_LoggedInIffUsableIffCookie ==
    /\ isLoggedIn(credential) <=> Usable(credential)
    /\ getAuthHeaders(credential) # NoCookie <=> Usable(credential)
    /\ ret.op = "isLoggedIn" => (ret.value <=> Usable(credential))
    /\ ret.op = "getAuthHeaders" => (ret.Cookie # NoCookie <=> Usable(credential))
    /\ (ret.op = "getAuthHeaders" /\ Usable(credential))
          => ret.Cookie = "SESSDATA=" \o encodeURIComponent(credential.sessdata)
                          \o "; bili_jct=" \o credential.bili_jct
                          \o "; DedeUserID=" \o credential.dedeuserid

\* headers were asked for a credential with a session token but an empty
\* CSRF token, and carry no Cookie
C8_Witness ==
    /\ ret.op = "getAuthHeaders"
    /\ ret.Cookie = NoCookie
    /\ credential # NoCred
    /\ credential.sessdata = "s,1"
    /\ credential.bili_jct = ""
    /\ credential.dedeuserid = "u1"

\* a step of a performCookieRefresh run
RunStepped ==
    ret'.op \in {"refresh.check", "refresh.csrf", "refresh.refresh",
                 "refresh.confirm", "refresh.return"}

\* the reply handled by the step is a failure of its stage: the
\* needs-refresh query fails, the correspond page lacks the marker, the
\* refresh request throws or returns a non-zero code, or its set-cookie
\* header lacks the new session or CSRF cookie
StageFailed ==
    \/ /\ ret'.stage = "check"
       /\ ret'.reply.net = "throw" \/ ret'.reply.code # 0
    \/ /\ ret'.stage = "csrf"
       /\ ret'.reply.net = "throw" \/ ret'.reply.marker = Undefined
    \/ /\ ret'.stage = "refresh"
       /\ \/ ret'.reply.net = "throw"
          \/ ret'.reply.code # 0
          \/ ret'.reply.header.sessdata = Undefined
          \/ ret'.reply.header.bili_jct = Undefined

\* C9: in a cookie-refresh run, a failure of the needs-refresh query, of the
\* correspond page, of the refresh request or of its set-cookie header ends
\* the run at that step with false, and no step of a run that ends with
\* false (nor any step before the last) changes the stored credential or
\* the file.
C9_FailedStepAbortsWithoutMutation ==
    [][RunStepped
       => /\ StageFailed
             => /\ ret'.op = "refresh.return"
                /\ ~ret'.value
                /\ BagCardinality(refresh') < BagCardinality(refresh)
          /\ (ret'.op # "refresh.return" \/ ~ret'.value)
             => credential' = credential /\ disk' = disk]_vars

\* a run was aborted because the set-cookie header of a successful refresh
\* reply lacked the CSRF cookie, and the credential it started from is still
\* the stored one
C9_Witness ==
    /\ ret.op = "refresh.return"
    /\ ret.stage = "refresh"
    /\ ~ret.value
    /\ ret.reply.code = 0
    /\ ret.reply.header.sessdata = "s%2C2"
    /\ ret.reply.header.bili_jct = Undefined
    /\ credential = Cred("s3", "j3", "u3", "r3", NoTime)
    /\ refresh = EmptyBag

\* C10: once the refresh request has succeeded, the run ends with the new
\* credential stored, whatever the outcome of the confirmation request
\* (code 0, non-zero code, network error or unparseable response).
C10_ConfirmFailureDoesNotBlockSaving ==
    [][(ret'.op = "refresh.return" /\ ret'.stage = "confirm")
       => /\ ret'.value
          /\ credential' = ret'.newCredential]_vars

\* the requests a step issues: the requests awaited after it that were not
\* awaited before it
Issued == {RequestOf(run) : run \in BagToSet(refresh' (-) refresh)}

\* the step handles the reply "code 0, refresh: false" of the needs-refresh
\* endpoint
NoRefreshNeededAnswered ==
    /\ RunStepped
    /\ ret'.stage = "check"
    /\ ret'.reply.net = "ok"
    /\ ret'.reply.code = 0
    /\ ~ret'.reply.refresh

\* C11: when the needs-refresh endpoint reports that no refresh is needed,
\* the run ends at that step: it issues no further request (correspond page,
\* refresh, confirmation) and the stored credential and the file are
\* unchanged.
C11_NoRefreshNeededStopsRun ==
    [][NoRefreshNeededAnswered
       => /\ ret'.op = "refresh.return"
          /\ Issued = {}
          /\ BagCardinality(refresh') = BagCardinality(refresh) - 1
          /\ credential' = credential
          /\ disk' = disk]_vars

\* a run over an imported credential was told that no refresh is needed and
\* ended, the credential still the stored one
C11_Witness ==
    /\ ret.op = "refresh.return"
    /\ ret.stage = "check"
    /\ ret.reply = CheckReply("ok", 0, FALSE)
    /\ ret.value
    /\ refresh = EmptyBag
    /\ credential = Cred("s3", "j3", "u3", "r3", NoTime)

\* the runs whose awaited reply a step handles
Handled == BagToSet(refresh (-) refresh')

\* C12: within a run the requests are issued in the order needs-refresh
\* query, correspond page, refresh POST, confirmation POST, each by the step
\* that handled a successful reply of the one before; the confirmation
\* request carries the Cookie and the csrf of the new credential and the
\* refresh token the run started with (the one the refresh POST carried); and
\* a run writes the credential store only in the step that handles the
\* outcome of the confirmation request.
C12_RequestsInOrderConfirmWithNewCookieOldToken ==
    [][RunStepped
       => /\ ret'.op = "refresh.check"
             => /\ ret'.stage = "start"
                /\ Issued = {Request("COOKIE_INFO_API", getCookieString(credential),
                                      credential.bili_jct, Undefined, Undefined)}
          /\ ret'.op = "refresh.csrf"
             => /\ ret'.stage = "check"
                /\ ret'.reply = CheckReply("ok", 0, TRUE)
                /\ \A run \in Handled : RequestOf(run).api = "COOKIE_INFO_API"
                /\ {req.api : req \in Issued} = {"CORRESPOND_API"}
          /\ ret'.op = "refresh.refresh"
             => /\ ret'.stage = "csrf"
                /\ ret'.reply.net = "ok" /\ ~Falsy(ret'.reply.marker)
                /\ \A run \in Handled : RequestOf(run).api = "CORRESPOND_API"
                /\ \E run \in Handled :
                      Issued = {Request("COOKIE_REFRESH_API", getCookieString(run.credential),
                                        run.credential.bili_jct, ret'.reply.marker,
                                        run.credential.refresh_token)}
          /\ ret'.op = "refresh.confirm"
             => /\ ret'.stage = "refresh"
                /\ ret'.reply.net = "ok" /\ ret'.reply.code = 0
                /\ ret'.newCredential.bili_jct = ret'.reply.header.bili_jct
                /\ ret'.newCredential.refresh_token = ret'.reply.refresh_token
                /\ \A run \in Handled : RequestOf(run).api = "COOKIE_REFRESH_API"
                /\ \E run \in Handled :
                      Issued = {Request("CONFIRM_REFRESH_API",
                                        getCookieString(ret'.newCredential),
                                        ret'.newCredential.bili_jct, Undefined,
                                        RequestOf(run).refresh_token)}
          /\ ret'.op = "refresh.return" => Issued = {}
          /\ (credential' # credential \/ disk' # disk)
             => /\ ret'.op = "refresh.return"
                /\ ret'.stage = "confirm"
                /\ \A run \in Handled : RequestOf(run).api = "CONFIRM_REFRESH_API"]_vars

\* the confirmation request of a run over the imported credential is under
\* way: it carries the new cookie and csrf and the old refresh token, and
\* the store still holds the old credential
C12_Witness ==
    /\ ret.op = "refresh.confirm"
    /\ credential = Cred("s3", "j3", "u3", "r3", NoTime)
    /\ \E run \in BagToSet(refresh) :
          /\ run.pc = "confirm"
          /\ RequestOf(run) = Request("CONFIRM_REFRESH_API",
                                      "SESSDATA=s%2C2; bili_jct=j2; DedeUserID=u2",
                                      "j2", Undefined, "r3")
          /\ run.newCredential.refresh_token = "r2"

----------------------------------------------------------------------------
(* Properties of the auto refresh service *)

\* the step begins a run of performCookieRefresh
RunBegun == RunStepped /\ ret'.stage = "start"

\* C13 (scheduling): a run is begun in the step that starts the service and
\* in every step in which the timer fires, never otherwise; whenever a run is
\* begun the timer is armed for 24 hours, which pass between two firings; a
\* run begun over a credential with a refresh token starts with the
\* needs-refresh query; and no later step of a run, failed or not, touches
\* the timer.
C13_RunsAtStartAndEveryInterval ==
    [][/\ RunBegun
          => /\ refreshTimer' = Timer(86400000, 86400000)
             /\ refreshTimer = NoTimer \/ refreshTimer.remaining \in {0, 86400000}
             /\ (credential # NoCred /\ ~Falsy(credential.refresh_token))
                   => /\ ret'.op = "refresh.check"
                      /\ {req.api : req \in Issued} = {"COOKIE_INFO_API"}
       /\ (refreshTimer = NoTimer /\ refreshTimer' # NoTimer) => RunBegun
       /\ (refreshTimer # NoTimer /\ refreshTimer.remaining = 0 /\ refreshTimer' # refreshTimer)
          => RunBegun
       /\ ret'.op = "interval"
          => /\ refreshTimer = Timer(86400000, 86400000)
             /\ refreshTimer' = Timer(86400000, 0)
             /\ ticks < MaxTicks => now' = now + 86400000
             /\ refresh' = refresh
       /\ (RunStepped /\ ~RunBegun) => refreshTimer' = refreshTimer]_vars

\* the interval has elapsed and the callback of the timer is due
TimerDue == refreshTimer # NoTimer /\ refreshTimer.remaining = 0

\* a run has just been begun and the timer is armed for the next one
RunJustBegun ==
    /\ ret.op \in {"refresh.check", "refresh.return"}
    /\ ret.stage = "start"
    /\ refreshTimer = Timer(86400000, 86400000)

\* the needs-refresh endpoint has just reported that the stored credential
\* needs a refresh
RefreshReportedNeeded ==
    /\ ret.op = "refresh.csrf"
    /\ \E run \in BagToSet(refresh) : run.pc = "csrf" /\ run.credential = credential

\* a run has just ended with its new credential stored
CredentialReplaced ==
    /\ ret.op = "refresh.return"
    /\ ret.stage = "confirm"
    /\ ret.value
    /\ credential = ret.newCredential

\* the remote steps eventually succeed: a step that is tried again and again
\* does not fail for ever
RemoteEventuallySucceeds ==
    /\ SF_vars(RefreshCheckReply /\ ret'.op = "refresh.csrf")
    /\ SF_vars(RefreshCsrfReply /\ ret'.op = "refresh.refresh")
    /\ SF_vars(RefreshReplyStep /\ ret'.op = "refresh.confirm")
    /\ SF_vars(RefreshConfirmReply /\ ret'.value)

\* C13: the refresh routine runs once when the service is started and then
\* once per 24-hour interval; a failed run leaves the timer armed, so the
\* run of the next interval starts with the needs-refresh query again; and
\* if the remote steps eventually succeed, a credential reported as needing
\* a refresh is eventually replaced.
C13_ScheduledRunsEventuallyReplace ==
    /\ C13_RunsAtStartAndEveryInterval
    /\ TimerDue ~> RunJustBegun
    /\ RemoteEventuallySucceeds => (RefreshReportedNeeded ~> CredentialReplaced)

\* the run of the second interval has replaced the credential 24 hours after
\* the service was started, the timer armed for the next interval
C13_Witness ==
    /\ CredentialReplaced
    /\ credential.sessdata = "s,2"
    /\ credential.login_time = 86400000
    /\ refreshTimer = Timer(86400000, 86400000)

\* C14: a run of the refresh routine begun while the stored credential is
\* absent, not usable or without a refresh token ends at once: it issues no
\* remote request and leaves the stored credential and the file unchanged.
C14_RunNeedsUsableCredentialWithToken ==
    [][(/\ RunBegun
        /\ \/ credential = NoCred
           \/ ~Usable(credential)
           \/ Falsy(credential.refresh_token))
       => /\ ret'.op = "refresh.return"
          /\ Issued = {}
          /\ refresh' = refresh
          /\ credential' = credential
          /\ disk' = disk]_vars

----------------------------------------------------------------------------
(* Properties of the stream selector *)

\* the ids of the video candidates of the manifest
VideoIds == {dashInfo.video[i].id : i \in Positions(dashInfo.video)}

\* C17: in automatic mode, for every non-empty candidate list the selector
\* returns a video candidate of the numerically highest tier id
C17_AutoPicksHighestTier ==
    (ret.op = "streams" /\ videoQuality = "auto" /\ dashInfo.video # <<>>)
    => /\ \E i \in Positions(dashInfo.video) : ret.video = dashInfo.video[i]
       /\ \A id \in VideoIds : id <= ret.video.id

C17_Witness ==
    /\ ret.op = "streams"
    /\ videoQuality = "auto"
    /\ dashInfo.video = <<Stream(32, 300, "v32"), Stream(80, 2000, "v80avc")>>
    /\ ret.video = Stream(80, 2000, "v80avc")

\* the greatest and the least of a non-empty set of ids
MaxOf(ids) == CHOOSE id \in ids : \A other \in ids : other <= id
MinOf(ids) == CHOOSE id \in ids : \A other \in ids : id <= other

\* the quality names of VIDEO_QUALITY_MAP that the inputs draw
ExplicitQualities == {"1080p", "720p", "360p"}

\* C18: in explicit mode with target tier T the selector returns a candidate
\* of tier T if one exists, else one of the highest tier not above T, else
\* one of the lowest tier; it returns no video stream only when the manifest
\* has no video candidates
C18_ExplicitPicksExactThenLowerThenLowest ==
    ret.op = "streams"
    => /\ ret.video = NoStream <=> dashInfo.video = <<>>
       /\ (videoQuality \in ExplicitQualities /\ dashInfo.video # <<>>)
          => LET T == VIDEO_QUALITY_MAP(videoQuality)
                 notAbove == {id \in VideoIds : id <= T}
             IN /\ \E i \in Positions(dashInfo.video) : ret.video = dashInfo.video[i]
                /\ ret.video.id = IF T \in VideoIds THEN T
                                  ELSE IF notAbove # {} THEN MaxOf(notAbove)
                                  ELSE MinOf(VideoIds)

\* target 64 with candidates of tiers 16 and 32: the tier-32 candidate
C18_Witness ==
    /\ ret.op = "streams"
    /\ videoQuality = "720p"
    /\ dashInfo.video = <<Stream(16, 100, "v16"), Stream(32, 300, "v32")>>
    /\ ret.video = Stream(32, 300, "v32")

\* the first candidate of a non-empty set of positions of the pooled list
FirstSeen(pool, among) == pool[MinOf(among)]

\* C19: over the pooled regular, spatial and lossless candidates the selector
\* returns a lossless candidate (id 30251) if one is present, else a spatial
\* one (id 30250), else one of the greatest bit-rate, whatever the order of
\* the pool; among the candidates of the class chosen it returns the first
\* seen
C19_AudioPriorityTiesToFirstSeen ==
    (ret.op = "streams" /\ AudioStreams(dashInfo) # <<>>)
    => LET pool == AudioStreams(dashInfo)
           lossless == {i \in Positions(pool) : pool[i].id = 30251}
           spatial == {i \in Positions(pool) : pool[i].id = 30250}
           loudest == {i \in Positions(pool) :
                          \A j \in Positions(pool) : pool[j].bandwidth <= pool[i].bandwidth}
       IN ret.audio = IF lossless # {} THEN FirstSeen(pool, lossless)
                      ELSE IF spatial # {} THEN FirstSeen(pool, spatial)
                      ELSE FirstSeen(pool, loudest)

----------------------------------------------------------------------------
(* Properties of the message handler and the dedup cache *)

\* the keys whose entry the step inserts or overwrites
KeysInserted ==
    {key \in DOMAIN parseCache' :
        key \notin DOMAIN parseCache \/ parseCache'[key] # parseCache[key]}

\* the step is the return of a call that did not deliver: no video id, no
\* video info, or a forward message that was not sent
AbandonedOrFailed ==
    /\ ret'.op = "msg.return"
    /\ ret'.cause \in {"no-id", "no-info", "not-delivered"}

\* the step goes on to process a message, with dedup on
Processed == ret'.op = "msg.info" /\ ret'.cause = "looked-up"
\* the step drops a message as a repeat
Suppressed == ret'.op = "msg.return" /\ ret'.cause = "suppressed"

\* C15: with dedup on, a message is processed only if the cache holds no
\* live entry for its (group, video) key; a key is inserted only by the step
\* in which the forward message of that key was delivered; a call that is
\* abandoned (no video id, no video info) or whose delivery fails inserts
\* nothing, so a message is dropped as a repeat only if a message of its key
\* was delivered before
C15_ConsultedFirstInsertedOnlyAfterDelivery ==
    [][/\ Processed
          => LET key == CacheKey(ret'.groupId, ret'.videoId)
             IN ~(key \in DOMAIN parseCache /\ now <= parseCache[key])
       /\ KeysInserted # {}
          => /\ ret'.op = "msg.return"
             /\ ret'.cause = "delivered"
             /\ KeysInserted = {CacheKey(ret'.groupId, ret'.videoId)}
       /\ AbandonedOrFailed => KeysInserted = {} /\ inserted' = inserted
       /\ Suppressed => <<ret'.groupId, ret'.videoId>> \in DOMAIN inserted]_vars

\* a delivery has failed with dedup on, and the key is not in the cache
C15_Witness ==
    /\ ret.op = "msg.return"
    /\ ret.cause = "not-delivered"
    /\ parseCacheTTL > 0
    /\ CacheKey(ret.groupId, ret.videoId) \notin DOMAIN parseCache

\* the step looks a key up in the cache
LookedUp == Processed \/ Suppressed

\* C16: a lookup of (group, video) reports suppression if and only if that
\* same (group, video) was inserted and no more than its TTL has passed since
\* the last insertion; the entry of another group or of another video never
\* suppresses
C16_SuppressedIffInsertedWithinTTL ==
    [][LookedUp
       => LET k == <<ret'.groupId, ret'.videoId>>
          IN Suppressed <=> /\ k \in DOMAIN inserted
                            /\ now <= inserted[k].at + inserted[k].ttl * 1000]_vars

\* a key inserted more than its TTL ago is looked up and not suppressed
C16_Witness ==
    /\ ret.op = "msg.info"
    /\ ret.cause = "looked-up"
    /\ <<ret.groupId, ret.videoId>> \in DOMAIN inserted
    /\ now > inserted[<<ret.groupId, ret.videoId>>].at
             + inserted[<<ret.groupId, ret.videoId>>].ttl * 1000

\* the download meets one of the failures: no manifest, no usable video or
\* audio stream, a stream that fails to download, a video stream over the
\* size limit, ffmpeg missing or exiting non-zero
AcquisitionFails ==
    \/ probe.dash = NoDash
    \/ probe.dash.video = <<>>
    \/ AudioStreams(probe.dash) = <<>>
    \/ \E i \in Positions(probe.dash.video) : probe.dash.video[i].url = ""
    \/ ~probe.videoSuccess
    \/ ~probe.audioSuccess
    \/ probe.videoSizeMB > probe.maxSizeMB
    \/ probe.exec \in {"missing", "nonzero"}

\* the step takes the call m of handleMessage on
Leaves(m) == CopiesIn(m, handling') < CopiesIn(m, handling)
\* the step brings a call of handleMessage to m
Arrives(m) == CopiesIn(m, handling') > CopiesIn(m, handling)

\* the forward nodes that carry the metadata of a video: the rendered card,
\* or the info text with the cover if the video has one
MetadataOnly(videoInfo) ==
    {{"card"}, {"info"} \cup (IF videoInfo.pic THEN {"cover"} ELSE {})}

\* C20: in with-video mode, when the download meets any of the failures,
\* downloadDashVideo returns no file, the handler goes on to build the message
\* without a file, and what it then sends is the metadata alone (the rendered
\* card, or the cover and the info), with no video node, no video sent apart
\* and no group file
C20_FailedAcquisitionFallsBackToMetadata ==
    [][\A m \in BagToSet(handling) :
          /\ (m.pc = "download" /\ Leaves(m) /\ AcquisitionFails)
             => \/ /\ ret'.op = "msg.streams"
                   /\ Arrives([m EXCEPT !.pc = "streams", !.path = ret'.path])
                \/ /\ ret'.op = "msg.downloaded"
                   /\ ret'.file = NoFile
                   /\ Arrives([m EXCEPT !.pc = "build", !.file = NoFile])
          /\ (m.pc = "streams" /\ Leaves(m) /\ AcquisitionFails)
             => /\ ret'.op = "msg.downloaded"
                /\ ret'.file = NoFile
                /\ Arrives([m EXCEPT !.pc = "build", !.path = NoPath,
                                     !.file = NoFile])
          /\ (m.pc = "build" /\ m.file = NoFile /\ Leaves(m))
             => /\ ret'.op = "msg.send"
                /\ ret'.nodes \in MetadataOnly(m.videoInfo)
                /\ ret'.after = "none"
                /\ Arrives([m EXCEPT !.pc = "send", !.sendMode = "",
                                     !.videoInfo = NoInfo])]_vars

\* ffmpeg has exited non-zero after both downloads, and the cover and the
\* info are sent
C20_Witness ==
    /\ ret.op = "msg.send"
    /\ ret.sendMode = "with-video"
    /\ ret.videoInfo.cid
    /\ ret.file = NoFile
    /\ probe.exec = "nonzero"
    /\ probe.videoSuccess /\ probe.audioSuccess
    /\ probe.videoSizeMB <= probe.maxSizeMB
    /\ probe.dash # NoDash
    /\ ret.nodes = {"cover", "info"}

----------------------------------------------------------------------------
(* Properties of downloadDashVideo *)

\* C21: when downloadDashVideo returns, with a file or with none, neither
\* the temporary video stream file nor the temporary audio stream file of the
\* call exists
C21_TempStreamFilesRemoved ==
    ret.op = "msg.downloaded" => ret.left = {}

\* C22: a file that downloadDashVideo returns is no larger than the maxSizeMB
\* the call was given
C22_ReturnedFileWithinCeiling ==
    (ret.op = "msg.downloaded" /\ ret.file # NoFile)
    => ret.file.sizeMB <= probe.maxSizeMB

----------------------------------------------------------------------------
(* Properties of the identity extraction *)

\* positions of the text that hold a BV id, an av id, a video URL
BvPositions == {i \in DOMAIN messageText : messageText[i].id.tag = "bv"}
AvPositions == {i \in DOMAIN messageText : messageText[i].id.tag = "av"}
UrlPositions == {i \in DOMAIN messageText : messageText[i].kind = "url"}
Leftmost(positions) == CHOOSE i \in positions : \A j \in positions : i <= j
\* the identity that the URL a short link resolved to holds, if any
IdentityOf(realUrl) ==
    IF realUrl = NoUrl THEN NoVideoId
    ELSE IF realUrl[1].id.tag = "bv" THEN realUrl[1].id.s
    ELSE IF realUrl[1].id.tag = "av" THEN AvString(realUrl[1].id.n)
    ELSE NoVideoId

----------------------------------------------------------------------------
(* Properties of the metadata client *)

\* the step is the one of handleMessage that follows parseAndFetchVideoInfo,
\* and the info was asked for
InfoArrived ==
    /\ \/ ret'.op \in {"msg.download", "msg.build"}
       \/ ret'.op = "msg.return" /\ ret'.cause = "no-info"
    /\ ret'.asked

\* a network error, a non-success status, a malformed body, a non-zero code
FailingReply(reply) ==
    \/ reply.net = "threw"
    \/ ~reply.ok
    \/ reply.body = "malformed"
    \/ reply.code # 0

\* C23: when the request of fetchVideoInfo meets a network error, a
\* non-success HTTP status, a malformed body or a non-zero code, the result is
\* null and the handler returns at that step: the call goes on to no download,
\* no build and no send, and no key is inserted into the cache
C23_FailedMetadataSendsAndInsertsNothing ==
    [][(InfoArrived /\ FailingReply(ret'.reply))
       => /\ fetchVideoInfo(ret'.reply) = NoInfo
          /\ ret'.op = "msg.return"
          /\ \E m \in BagToSet(handling) : Leaves(m)
          /\ \A m \in BagToSet(handling') : ~Arrives(m)
          /\ KeysInserted = {}
          /\ inserted' = inserted]_vars

\* a call has returned on a reply with a non-zero code, with dedup on
C23_Witness ==
    /\ ret.op = "msg.return"
    /\ ret.cause = "no-info"
    /\ ret.asked
    /\ ret.reply.net = "ok" /\ ret.reply.ok /\ ret.reply.body = "json"
    /\ ret.reply.code # 0
    /\ parseCacheTTL > 0

----------------------------------------------------------------------------
(* Properties of the short-link resolution *)

\* the step is the one of handleMessage that follows extractVideoId, and the
\* short link of the message was resolved
ShortLinkResolved ==
    /\ \/ ret'.op = "msg.info"
       \/ ret'.op = "msg.return" /\ ret'.cause \in {"no-id", "suppressed"}
    /\ ret'.requests # <<>>

\* the URL that the requests ended at, or NoUrl when both threw
RealUrl(step) ==
    IF step.head # Threw THEN step.head
    ELSE IF step.get # Threw THEN step.get
    ELSE NoUrl

\* C26: when extractVideoId resolves a short link, the first request is a
\* HEAD and a GET follows only if the HEAD threw; if both threw, or the URL
\* reached holds no identity, extractVideoId returns null and the handler
\* returns at that step, so that parseAndFetchVideoInfo is never called and no
\* metadata request is made; if the URL reached holds a BV id, that id is the
\* result
C26_HeadThenGetThenIdentity ==
    [][ShortLinkResolved
       => /\ ret'.requests[1] = "HEAD"
          /\ ret'.requests \in {<<"HEAD">>, <<"HEAD", "GET">>}
          /\ Len(ret'.requests) = 2 <=> ret'.head = Threw
          /\ (RealUrl(ret') = NoUrl \/ IdentityOf(RealUrl(ret')) = NoVideoId)
             => /\ ret'.videoId = NoVideoId
                /\ ret'.op = "msg.return"
                /\ \E m \in BagToSet(handling) : Leaves(m)
                /\ \A m \in BagToSet(handling') : ~Arrives(m)
          /\ (RealUrl(ret') # NoUrl /\ RealUrl(ret')[1].id.tag = "bv")
             => ret'.videoId = RealUrl(ret')[1].id.s]_vars

\* the HEAD threw and the GET ended at a video URL: its BV id is the result
C26_Witness ==
    /\ ret.op = "msg.info"
    /\ ret.requests = <<"HEAD", "GET">>
    /\ ret.head = Threw
    /\ ret.get = <<UrlToken(BvId("BV2"))>>
    /\ ret.videoId = "BV2"

----------------------------------------------------------------------------
(* Properties of the manifest request *)

\* C24: a request of fetchVideoDashInfo made without a usable credential asks
\* for no quality above 80 and does not set the fourk parameter, whatever
\* config.videoQuality is
C24_UnauthenticatedRequestCapped ==
    (ret.op = "fetchVideoDashInfo" /\ ~isLoggedIn(credential))
    => /\ ret.params.qn <= 80
       /\ ret.params.fourk = "0"

----------------------------------------------------------------------------
(* Properties of the encryption of credential fields and of persistence *)

SameCredential(a, b) ==
    /\ a # NoCred /\ b # NoCred
    /\ a.sessdata = b.sessdata
    /\ a.bili_jct = b.bili_jct
    /\ a.dedeuserid = b.dedeuserid
    /\ \/ a.refresh_token = b.refresh_token
       \/ Falsy(a.refresh_token) /\ Falsy(b.refresh_token)
    /\ a.login_time = b.login_time

\* the step is a loadConfig that read the file, right after a saveConfig of a
\* usable credential that wrote it
LoadsWhatWasSaved ==
    /\ ret.op = "saveConfig" /\ ret.outcome # "writefail"
    /\ isLoggedIn(credential)
    /\ ret'.op = "loadConfig" /\ ret'.readOk

----------------------------------------------------------------------------
(* Properties of the handler with dedup off *)

\* C30: a call of handleMessage that reads a parseCacheTTL of 0 is not
\* suppressed, whatever the cache holds, and when it returns it has inserted
\* no key into the cache
C30_ZeroTTLDisablesDedup ==
    [][/\ (ret'.op \in {"msg.info", "msg.return"} /\ parseCacheTTL = 0
           /\ \E m \in BagToSet(handling) : m.pc = "extract" /\ Leaves(m))
          => /\ ret'.cause # "suppressed"
             /\ ret'.cause # "looked-up"
             /\ parseCache' = parseCache
       /\ \A m \in BagToSet(handling) :
            (m.pc = "send" /\ m.cacheTTL = 0 /\ Leaves(m))
            => /\ KeysInserted = {}
               /\ parseCache' = parseCache
               /\ inserted' = inserted]_vars

\* with a TTL of 0 and an entry of the cache that has not expired, a message
\* of the same group with the same video goes on to be processed
C30_Witness ==
    /\ parseCacheTTL = 0
    /\ ret.op = "msg.info"
    /\ ret.cause = "no-lookup"
    /\ CacheKey(ret.groupId, ret.videoId) \in DOMAIN parseCache
    /\ parseCache[CacheKey(ret.groupId, ret.videoId)] > now

----------------------------------------------------------------------------
(* Properties of the handlers under failures *)

\* a step of the download fails: no manifest, a stream that is not
\* downloaded, or an ffmpeg that is missing or exits with an error
DownloadFails ==
    \/ probe.dash = NoDash
    \/ ~probe.videoSuccess
    \/ ~probe.audioSuccess
    \/ probe.exec # "ok"

\* C29: whatever the endpoints, the file system and ffmpeg do, each call of
\* generateQrCode, pollQrCodeStatus, performCookieRefresh, clearCredential,
\* downloadDashVideo and handleMessage returns a value of its result type,
\* and a failure is returned as that value: pollQrCodeStatus returns Expired
\* when its request throws or is refused, performCookieRefresh returns false
\* when a request of the run throws, downloadDashVideo returns null when a
\* step of the download fails, generateQrCode returns null or a key, and
\* clearCredential returns with the credential cleared
C29_FailuresBecomeResults ==
    /\ ret.op = "generate.return" => (ret.null \/ ret.qrcode_key \in Keys)
    /\ ret.op = "poll.return"
       => /\ ret.status \in {WAITING, SCANNED, EXPIRED, SUCCESS}
          /\ (ret.remote /\ ~RemoteAnswered(ret.reply)) => ret.status = EXPIRED
    /\ ret.op = "refresh.return"
       => /\ ret.value \in BOOLEAN
          /\ ret.reply.net = "throw" => ret.value = FALSE
    /\ ret.op = "logout" => credential = NoCred
    /\ ret.op = "msg.downloaded"
       => /\ ret.file = NoFile \/ ret.file.sizeMB \in SizesMB
          /\ DownloadFails => ret.file = NoFile
    /\ ret.op = "msg.return"
       => ret.cause \in {"filtered", "no-id", "suppressed", "no-info", "delivered",
                         "not-delivered"}

\* ffmpeg is missing, and downloadDashVideo has returned null
C29_Witness ==
    /\ ret.op = "msg.downloaded"
    /\ probe.videoSuccess /\ probe.audioSuccess
    /\ probe.exec = "missing"
    /\ ret.file = NoFile

----------------------------------------------------------------------------
(* Properties of calls of handleMessage that overlap *)

\* the calls of downloadDashVideo that have made their paths and not returned
Downloading == {m \in BagToSet(handling) : m.pc = "streams"}

\* C31: any two calls of downloadDashVideo under way at the same time have
\* distinct video-stream, audio-stream and output paths.
C31_OverlappingRunsUseDistinctPaths ==
    \A m1 \in Downloading, m2 \in Downloading :
        /\ CopiesIn(m1, handling) = 1
        /\ m1 # m2 => m1.path # m2.path

\* the paths a file can be returned at
ReturnedPaths ==
    {TempPath(v, t) : v \in {"BV1", "BV2"},
                      t \in {i * CLEANUP_DELAY : i \in 0..(2 * MaxTicks)}}

\* downloadDashVideo has just returned a file at path
FileReturnedAt(path) ==
    ret.op = "msg.downloaded" /\ ret.file # NoFile /\ ret.file.path = path

\* cleanupTempVideo has just run on path
CleanedUp(path) == ret.op = "cleanup" /\ ret.path = path

\* the timer that a handler sets for file
TimerFor(file) ==
    Cleanup(file.path, IF file.sizeMB > 100 THEN GROUP_FILE_CLEANUP_DELAY
                       ELSE CLEANUP_DELAY)

----------------------------------------------------------------------------
(* Properties of the garbage collection of the dedup table *)

\* the table as parseCache.set leaves it, before any cleaning
AfterSet == [k \in DOMAIN parseCache \cup {ret'.key} |->
                IF k = ret'.key THEN ret'.expiry ELSE parseCache[k]]

\* C33: when an insertion leaves more than 100 entries in the dedup table,
\* the table it returns with holds no entry whose expiry is before the
\* current time, and holds every entry whose expiry is after the current
\* time, with that expiry; an insertion that leaves 100 entries or fewer
\* removes nothing.
C33_CollectedAboveThreshold ==
    [][ret'.op = "cache.add"
       => IF Cardinality(DOMAIN AfterSet) > 100
          THEN /\ \A k \in DOMAIN parseCache' : parseCache'[k] >= now
               /\ \A k \in DOMAIN AfterSet :
                     AfterSet[k] > now
                     => k \in DOMAIN parseCache' /\ parseCache'[k] = AfterSet[k]
               /\ DOMAIN parseCache' \subseteq DOMAIN AfterSet
          ELSE parseCache' = AfterSet]_vars

\* an insertion has left 101 entries, the expired ones were removed and the
\* others are still there
C33_Witness ==
    /\ ret.op = "cache.add"
    /\ ret.key = CacheKey("1", Filler(0))
    /\ Cardinality(DOMAIN parseCache) = 60
    /\ \A k \in DOMAIN parseCache : parseCache[k] >= now
    /\ \E k \in DOMAIN parseCache : parseCache[k] = now

----------------------------------------------------------------------------
(* Properties of a refresh run with other writers of the credential *)

\* the run ends in this step
RunEnds(run) == CopiesIn(run, refresh') < CopiesIn(run, refresh)

\* C34: a refresh run that ends when the stored credential is no longer the
\* one the run read (a logout has cleared it, or a QR login has stored
\* another) leaves the stored credential as it finds it.
C34_RunKeepsLogoutAndLogin ==
    [][\A run \in BagToSet(refresh) :
          (RunEnds(run) /\ credential # run.credential)
          => credential' = credential]_vars

\* the step delivers the video of its message to its group
Delivers == ret'.op = "msg.return" /\ ret'.cause = "delivered"

\* the video of the step was delivered to the group of the step no longer
\* ago than the TTL read then
DeliveredWithinTTL ==
    LET k == <<ret'.groupId, ret'.videoId>>
    IN /\ k \in DOMAIN inserted
       /\ now <= inserted[k].at + inserted[k].ttl * 1000

\* C35: with a positive dedup TTL, a video that was delivered to a group is
\* not delivered to that group again within the TTL, also when the second
\* message arrived while the first was being handled.
C35_OneDeliveryPerWindow ==
    [][Delivers => ~DeliveredWithinTTL]_vars

----------------------------------------------------------------------------
(* Properties of polls with a key that is not the session's *)

\* key is not the key of the current session
Foreign(key) == currentQrSession # NoSession /\ key # currentQrSession.qrcode_key

\* the call of pollQrCodeStatus ends or goes on in this step
PollSteps(call) == CopiesIn(call, polls') < CopiesIn(call, polls)

\* C36: a poll with an explicit key that is not the key of the current
\* session leaves the current session and the stored credential as they
\* are, at the timeout test and when its reply is handled.
C36_ForeignKeyPollChangesNothing ==
    [][/\ (PollInvoked /\ ret'.arg # NoKey /\ Foreign(ret'.arg))
          => currentQrSession' = currentQrSession
       /\ \A call \in BagToSet(polls) :
             (PollSteps(call) /\ Foreign(call.key))
             => /\ currentQrSession' = currentQrSession
                /\ credential' = credential]_vars

----------------------------------------------------------------------------
(* Properties of the stored credential over its lifecycle *)

\* C37: through config loads and saves, QR logins, cookie refreshes and
\* logouts, the stored credential is absent or has a non-empty session token,
\* CSRF token and account id; the credential a refresh builds has the account
\* id of the set-cookie header if the header has one and else the account id
\* of the credential the run read; and a run that ends with true after the
\* confirmation has stored the credential it built.
C37_StoredCredentialAbsentOrUsable ==
    /\ [](credential = NoCred \/ Usable(credential))
    /\ [][\A run \in BagToSet(refresh) :
            /\ (RunEnds(run) /\ ret'.op = "refresh.confirm")
               => /\ ret'.newCredential.dedeuserid
                        = IF Falsy(ret'.reply.header.dedeuserid)
                          THEN run.credential.dedeuserid
                          ELSE ret'.reply.header.dedeuserid
                  /\ Usable(ret'.newCredential)
            /\ (RunEnds(run) /\ ret'.op = "refresh.return"
                             /\ ret'.stage = "confirm" /\ ret'.value)
               => credential' = run.newCredential /\ Usable(credential')]_vars

\* a refresh whose set-cookie header had no account id has stored the new
\* cookies with the account id of the QR login
C37_Witness ==
    /\ ret.op = "refresh.return"
    /\ ret.stage = "confirm"
    /\ ret.value
    /\ credential = ret.newCredential
    /\ credential.sessdata = "s,2"
    /\ credential.dedeuserid = "u1"

\* C38: after loadConfig, no field of the stored credential carries the
\* encryption marker.
C38_NoMarkerAfterLoad ==
    (ret.op = "loadConfig" /\ credential # NoCred)
    => \A f \in {"sessdata", "bili_jct", "dedeuserid", "refresh_token"} :
          \/ credential[f] = Undefined
          \/ Len(credential[f]) < 4
          \/ SubSeq(credential[f], 1, 4) # "ENC:"


----------------------------------------------------------------------------
(* Properties of the interval timer as the service is started and stopped *)

\* C39: at most one interval timer is armed at any time, and it is the one
\* the module variable refers to, however often the service is started; a
\* stop leaves no timer armed; and while none is armed the only step that
\* begins a run is a start of the service, which arms the timer again.
C39_OneTimerUntilStoppedNoneAfter ==
    [][/\ armed' = (IF refreshTimer' # NoTimer THEN 1 ELSE 0)
       /\ ret'.op = "stop" => (refreshTimer' = NoTimer /\ armed' = 0)
       /\ (RunBegun /\ refreshTimer = NoTimer)
          => (refreshTimer' = Timer(REFRESH_INTERVAL, REFRESH_INTERVAL) /\ armed' = 1)
       /\ (refreshTimer = NoTimer /\ ~RunBegun) => refreshTimer' = NoTimer]_vars

\* the service was stopped after its timer had fired, while a run was under
\* way: no timer is armed and the run goes on
C39_Witness ==
    /\ ret.op = "stop"
    /\ now > 0
    /\ refreshTimer = NoTimer
    /\ armed = 0
    /\ refresh # EmptyBag


----------------------------------------------------------------------------
(* The login test of the manifest request and its Cookie *)

\* C40 as stated: a request of fetchVideoDashInfo that treats the caller as
\* logged in (tier 116 in automatic mode, or the fourk parameter set) also
\* carries the Cookie of the credential
C40_LoggedInTierOnlyWithCookie ==
    (/\ ret.op = "fetchVideoDashInfo"
     /\ \/ ret.params.fourk = "1"
        \/ (videoQuality \in {Undefined, "auto"} /\ ret.params.qn = 116))
    => ret.Cookie # NoCookie

============================================================================
